---- MODULE Spec2Model ----
(***************************************************************************)
(* The mutable buffer chunk of influxdb_iox: typed columns with validity   *)
(* bitmaps and statistics (mutable_buffer/src/column.rs), the chunk that   *)
(* owns them and its cached snapshot (mutable_buffer/src/chunk.rs), and    *)
(* the decoded table batch the chunk ingests (internal_types/src/entry.rs).*)
(***************************************************************************)
EXTENDS Integers, Sequences, FiniteSets, TLC

(***************************************************************************)
(* Bounds of the model.                                                    *)
(***************************************************************************)
\* rows a chunk may hold before the model stops writing to it
MaxRows == 2
\* snapshot objects the model allocates
MaxSnapshots == 2
\* chunks in the list prune_chunks is given
MaxChunks == 2
\* segment ids a write buffer hands out before the appends stop
MaxSegments == 3
\* callers that use a Config at the same time
MaxCallers == 2
\* threads that read and write one chunk
MaxThreads == 2

(***************************************************************************)
(* Small helpers.                                                          *)
(***************************************************************************)
Min(a, b) == IF a < b THEN a ELSE b

Repeat(v, n) == [i \in 1..n |-> v]

\* Option<T>: None is the empty sequence, Some(v) the one-element sequence
None == <<>>

Some(v) == <<v>>

(***************************************************************************)
(* Logical column types (InfluxColumnType) and their storage.              *)
(***************************************************************************)
InfluxColumnTypes ==
    {"Tag", "Field(Float)", "Field(Integer)", "Field(UInteger)",
     "Field(String)", "Field(Boolean)", "Timestamp"}

\* the ColumnData variant Column::new picks for a logical type
StorageKind(t) ==
    CASE t = "Field(Boolean)"  -> "Bool"
      [] t = "Field(UInteger)" -> "U64"
      [] t = "Field(Float)"    -> "F64"
      [] t = "Field(Integer)"  -> "I64"
      [] t = "Timestamp"       -> "I64"
      [] t = "Field(String)"   -> "String"
      [] t = "Tag"             -> "Tag"

INVALID_DID == -1

\* f64 values: an integer magnitude or NaN
F64(x) == [nan |-> FALSE, x |-> x]

NaN == [nan |-> TRUE, x |-> 0]

\* the placeholder stored at a null position of each storage kind
DefaultValue(kind) ==
    CASE kind = "Bool"   -> FALSE
      [] kind = "U64"    -> 0
      [] kind = "F64"    -> F64(0)
      [] kind = "I64"    -> 0
      [] kind = "String" -> ""
      [] kind = "Tag"    -> INVALID_DID

(***************************************************************************)
(* Ordering of values, as PartialOrd gives it for each storage kind.       *)
(***************************************************************************)
\* the strings of the model in lexicographic order
StrOrder == <<"", "a", "b", "c">>

StrRank(s) == CHOOSE i \in 1..Len(StrOrder) : StrOrder[i] = s

IsNan(kind, v) == kind = "F64" /\ v.nan

\* a > b
Greater(kind, a, b) ==
    CASE kind = "Bool" -> a /\ ~b
      [] kind = "F64"  -> ~a.nan /\ ~b.nan /\ a.x > b.x
      [] kind \in {"String", "Tag"} -> StrRank(a) > StrRank(b)
      [] OTHER -> a > b

(***************************************************************************)
(* StatValues: count of non-null values, min and max.                      *)
(***************************************************************************)
StatValuesDefault == [count |-> 0, min |-> None, max |-> None]

StatValuesUpdate(kind, stats, v) ==
    [count |-> stats.count + 1,
     min |-> IF IsNan(kind, v) THEN stats.min
             ELSE IF stats.min = None THEN Some(v)
             ELSE IF Greater(kind, stats.min[1], v) THEN Some(v)
             ELSE stats.min,
     max |-> IF IsNan(kind, v) THEN stats.max
             ELSE IF stats.max = None THEN Some(v)
             ELSE IF Greater(kind, v, stats.max[1]) THEN Some(v)
             ELSE stats.max]

(***************************************************************************)
(* Bytes and bitmaps.                                                      *)
(***************************************************************************)
Pow2(k) == CASE k = 0 -> 1 [] k = 1 -> 2 [] k = 2 -> 4 [] k = 3 -> 8
             [] k = 4 -> 16 [] k = 5 -> 32 [] k = 6 -> 64 [] k = 7 -> 128

\* bit k (0 = least significant) of byte b
Bit(b, k) == (b \div Pow2(k)) % 2

\* u8::count_ones
CountOnes(b) ==
    Bit(b, 0) + Bit(b, 1) + Bit(b, 2) + Bit(b, 3)
    + Bit(b, 4) + Bit(b, 5) + Bit(b, 6) + Bit(b, 7)

\* u8::reverse_bits
ReverseBits(b) ==
    Bit(b, 0) * 128 + Bit(b, 1) * 64 + Bit(b, 2) * 32 + Bit(b, 3) * 16
    + Bit(b, 4) * 8 + Bit(b, 5) * 4 + Bit(b, 6) * 2 + Bit(b, 7)

\* !x on a u8
NotByte(b) == 255 - b

\* whether bit position p (0-based, least significant bit first) of a byte
\* sequence is set
BitAt(bytes, p) == Bit(bytes[(p \div 8) + 1], p % 8) = 1

\* iter_set_positions: the set positions of a byte sequence in ascending order
iter_set_positions(bytes) ==
    SelectSeq([i \in 1..(8 * Len(bytes)) |-> i - 1],
              LAMBDA p : BitAt(bytes, p))

\* BitSet::append_bits(count, bytes): the first count bits of bytes
append_bits(valid, count, bytes) ==
    valid \o [i \in 1..count |-> BitAt(bytes, i - 1)]

\* BitSet::append_unset(count)
append_unset(valid, count) == valid \o Repeat(FALSE, count)

(***************************************************************************)
(* Results.  Every operation of the chunk ends in Ok, in one of the error  *)
(* values of chunk::Error / column::Error, or in a panic.                  *)
(***************************************************************************)
Result(kind, column, source, existing, inserted, expected, actual) ==
    [kind |-> kind, column |-> column, source |-> source,
     existing |-> existing, inserted |-> inserted,
     expected |-> expected, actual |-> actual]

Ok == Result("Ok", "", "", "", "", 0, 0)

Panic(msg) == Result("Panic", "", msg, "", "", 0, 0)

\* column::Error::TypeMismatch
TypeMismatch(existing, inserted) ==
    Result("TypeMismatch", "", "", existing, inserted, 0, 0)

\* column::Error::InvalidNullMask
InvalidNullMask(expected_bytes, actual_bytes) ==
    Result("InvalidNullMask", "", "", "", "", expected_bytes, actual_bytes)

\* chunk::Error::IncorrectRowCount
IncorrectRowCount(column, expected, actual) ==
    Result("IncorrectRowCount", column, "", "", "", expected, actual)

\* chunk::Error::ColumnError wrapping a column::Error
ColumnError(column, source) ==
    Result("ColumnError", column, source.kind, source.existing,
           source.inserted, source.expected, source.actual)

IsErr(r) == r.kind \notin {"Ok", "Panic"}

(***************************************************************************)
(* The columns of a decoded table batch (entry::Column): name, logical     *)
(* type, the row count the batch assigned, the optional null mask bytes    *)
(* (most significant bit first, set = null) and the non-null values.       *)
(***************************************************************************)
NoMask == [some |-> FALSE, bytes |-> <<>>]

NullMask(bytes) == [some |-> TRUE, bytes |-> bytes]

EntryColumn(name, t, row_count, null_mask, values) ==
    [name |-> name, influx_type |-> t, row_count |-> row_count,
     null_mask |-> null_mask, values |-> values]

RECURSIVE SumCountOnes(_)
SumCountOnes(bytes) ==
    IF bytes = <<>> THEN 0
    ELSE CountOnes(Head(bytes)) + SumCountOnes(Tail(bytes))

\* TableBatch::row_count: values plus null bits of the FIRST column
TableBatchRowCount(fbcolumns) ==
    IF fbcolumns = <<>> THEN 0
    ELSE LET c == fbcolumns[1] IN
         Len(c.values)
         + (IF c.null_mask.some THEN SumCountOnes(c.null_mask.bytes) ELSE 0)

\* TableBatch::columns: every column is given the batch's row count
TableBatchColumns(fbcolumns) ==
    [i \in 1..Len(fbcolumns) |->
        [fbcolumns[i] EXCEPT !.row_count = TableBatchRowCount(fbcolumns)]]

\* is_null_value(row, mask) with row counted from 1
is_null_value(row, mask) ==
    IF mask.some
    THEN LET position == IF row % 8 = 0 THEN 8 ELSE row % 8
             byte == IF row % 8 = 0 THEN (row \div 8) - 1 ELSE row \div 8
         IN  IF byte >= Len(mask.bytes) THEN TRUE
             ELSE Bit(mask.bytes[byte + 1], 8 - position) = 1
    ELSE FALSE

\* how many of rows 1..row are not null according to the mask
RECURSIVE NonNullUpTo(_, _)
NonNullUpTo(row, mask) ==
    IF row = 0 THEN 0
    ELSE NonNullUpTo(row - 1, mask)
         + (IF is_null_value(row, mask) THEN 0 ELSE 1)

\* ValIterator / StringIterator: the batch column read row by row; a null
\* position, or a position whose value is missing, reads as None
EntryColumnCells(c) ==
    [row \in 1..c.row_count |->
        IF is_null_value(row, c.null_mask) THEN None
        ELSE LET k == NonNullUpTo(row, c.null_mask) IN
             IF k <= Len(c.values) THEN Some(c.values[k]) ELSE None]

(***************************************************************************)
(* Column (mutable_buffer/src/column.rs).                                  *)
(***************************************************************************)
\* a Column::new that appends set bits for the initial rows
ColumnNewSetBits(row_count, column_type) ==
    [influx_type |-> column_type,
     valid |-> Repeat(TRUE, row_count),
     data |-> Repeat(DefaultValue(StorageKind(column_type)), row_count),
     dictionary |-> <<>>,
     stats |-> StatValuesDefault]

ColumnNew(row_count, column_type) ==
    [influx_type |-> column_type,
     valid |-> append_unset(<<>>, row_count),
     data |-> Repeat(DefaultValue(StorageKind(column_type)), row_count),
     dictionary |-> <<>>,
     stats |-> StatValuesDefault]

ColumnLen(c) == Len(c.valid)

\* a validate_schema that reports the two types the wrong way round
validate_schema_swapped(c, entry) ==
    IF entry.influx_type = c.influx_type THEN Ok
    ELSE TypeMismatch(entry.influx_type, c.influx_type)

validate_schema(c, entry) ==
    IF entry.influx_type = c.influx_type THEN Ok
    ELSE TypeMismatch(c.influx_type, entry.influx_type)

\* construct_valid_mask: [res |-> Ok or InvalidNullMask, mask |-> bytes]
construct_valid_mask(entry) ==
    LET buf_len == (entry.row_count + 7) \div 8 IN
    IF entry.null_mask.some
    THEN IF Len(entry.null_mask.bytes) = buf_len
         THEN [res |-> Ok,
               mask |-> [i \in 1..buf_len |->
                           NotByte(ReverseBits(entry.null_mask.bytes[i]))]]
         ELSE [res |-> InvalidNullMask(buf_len, Len(entry.null_mask.bytes)),
               mask |-> <<>>]
    ELSE [res |-> Ok, mask |-> Repeat(255, buf_len)]

\* the symbol type K and usize, scaled down: K is a signed integer of KBits
\* bits, usize an unsigned integer of UsizeBits bits
KBits == 3

UsizeBits == 7

KMin == 0 - Pow2(KBits - 1)

KMax == Pow2(KBits - 1) - 1

\* K::from_usize: the index as a K if it fits
from_usize(index) == IF index <= KMax THEN Some(index) ELSE None

\* AsPrimitive<usize>::as_ on a K: a negative symbol wraps around
as_usize(id) == id % Pow2(UsizeBits)

\* PackedStringArray::get
PackedGet(storage, index) ==
    IF index < Len(storage) THEN Some(storage[index + 1]) ELSE None

\* PackedStringArray::append: the storage and the index of the new string
PackedAppend(storage, value) ==
    [storage |-> Append(storage, value), index |-> Len(storage)]

\* a lookup_value_or_insert that takes every value for a new one
lookup_value_or_insert_vacant(dictionary, value) ==
    [dictionary |-> Append(dictionary, value), id |-> Len(dictionary),
     panic |-> FALSE]

\* a lookup_value_or_insert that puts a new string in front of the others
lookup_value_or_insert_front(dictionary, value) ==
    IF \E i \in 1..Len(dictionary) : dictionary[i] = value
    THEN [dictionary |-> dictionary,
          id |-> (CHOOSE i \in 1..Len(dictionary) : dictionary[i] = value) - 1,
          panic |-> FALSE]
    ELSE [dictionary |-> <<value>> \o dictionary, id |-> 0, panic |-> FALSE]

\* a lookup_value_or_insert that casts the index to K with `as`
lookup_value_or_insert_wrapping(dictionary, value) ==
    IF \E i \in 1..Len(dictionary) : dictionary[i] = value
    THEN [dictionary |-> dictionary,
          id |-> (CHOOSE i \in 1..Len(dictionary) : dictionary[i] = value) - 1,
          panic |-> FALSE]
    ELSE [dictionary |-> Append(dictionary, value),
          id |-> ((Len(dictionary) - KMin) % Pow2(KBits)) + KMin,
          panic |-> FALSE]

\* StringDictionary::lookup_value_or_insert on the dictionary's storage (the
\* dedup map holds the index of every stored string): the key of the
\* occupied entry, or the index the string is appended at; panic when that
\* index does not fit K, the string already appended
lookup_value_or_insert(dictionary, value) ==
    IF \E i \in 1..Len(dictionary) : dictionary[i] = value
    THEN [dictionary |-> dictionary,
          id |-> (CHOOSE i \in 1..Len(dictionary) : dictionary[i] = value) - 1,
          panic |-> FALSE]
    ELSE LET a == PackedAppend(dictionary, value)
             key == from_usize(a.index)
         IN  IF key = None
             THEN [dictionary |-> a.storage, id |-> INVALID_DID, panic |-> TRUE]
             ELSE [dictionary |-> a.storage, id |-> key[1], panic |-> FALSE]

\* a lookup_id that indexes the storage without a bounds check
lookup_id_unchecked(dictionary, id) ==
    IF id \in 0..(Len(dictionary) - 1) THEN Some(dictionary[id + 1])
    ELSE Some("")

\* StringDictionary::lookup_id: storage.get(id.as_())
lookup_id(dictionary, id) == PackedGet(dictionary, as_usize(id))

\* a StringDictionary::id that inserts the string it does not find
dictionary_id_inserting(dictionary, value) ==
    [dictionary |-> IF \E i \in 1..Len(dictionary) : dictionary[i] = value
                    THEN dictionary ELSE Append(dictionary, value),
     out |-> IF \E i \in 1..Len(dictionary) : dictionary[i] = value
             THEN Some((CHOOSE i \in 1..Len(dictionary) :
                           dictionary[i] = value) - 1)
             ELSE None]

\* StringDictionary::id and lookup_value: the key of the entry whose stored
\* string equals value, if any; the dictionary as it was
dictionary_id(dictionary, value) ==
    [dictionary |-> dictionary,
     out |-> IF \E i \in 1..Len(dictionary) : dictionary[i] = value
             THEN Some((CHOOSE i \in 1..Len(dictionary) :
                           dictionary[i] = value) - 1)
             ELSE None]

\* a write loop that calls update() for the values that are not NaN only
RECURSIVE UpdateAllOrdinary(_, _, _, _)
UpdateAllOrdinary(kind, stats, values, n) ==
    IF n = 0 THEN stats
    ELSE LET s == UpdateAllOrdinary(kind, stats, values, n - 1) IN
         IF IsNan(kind, values[n]) THEN s
         ELSE StatValuesUpdate(kind, s, values[n])

\* the statistics after update() was called for values[1..n] in order
RECURSIVE UpdateAll(_, _, _, _)
UpdateAll(kind, stats, values, n) ==
    IF n = 0 THEN stats
    ELSE StatValuesUpdate(kind, UpdateAll(kind, stats, values, n - 1), values[n])

\* the dictionary after values[1..n] were looked up or inserted in order
RECURSIVE InsertAll(_, _, _)
InsertAll(dictionary, values, n) ==
    IF n = 0 THEN dictionary
    ELSE lookup_value_or_insert(InsertAll(dictionary, values, n - 1),
                                values[n]).dictionary

\* the (position, value) pairs the write loops visit:
\* iter_set_positions(mask).zip(entry_data)
ZipLen(mask, values) == Min(Len(iter_set_positions(mask)), Len(values))

\* The write loops index the backing store at data_offset + idx.  A set
\* position at or beyond row_count (the padding bits of the last mask byte
\* are all valid) is outside the store: Vec indexing panics, BitSet::set is
\* only called for true values, the packed string array underflows in its
\* final extend.  After the loop the statistics count must have grown by
\* the number of supplied values (assert_eq!).
WritePanics(kind, row_count, mask, values) ==
    LET pos == iter_set_positions(mask)
        n == ZipLen(mask, values)
    IN  \/ \E k \in 1..n : pos[k] >= row_count /\ (kind = "Bool" => values[k])
        \/ n # Len(values)

\* the row_count cells a successful write adds to the backing store
WrittenCells(kind, row_count, mask, values, dictionary) ==
    LET pos == iter_set_positions(mask)
        n == ZipLen(mask, values)
    IN  [i \in 1..row_count |->
            IF \E k \in 1..n : pos[k] = i - 1
            THEN LET k == CHOOSE k \in 1..n : pos[k] = i - 1 IN
                 IF kind = "Tag"
                 THEN lookup_value_or_insert(dictionary, values[k]).id
                 ELSE values[k]
            ELSE DefaultValue(kind)]

\* a write loop that stores the values and forgets stats.update
handle_write_no_stats(kind, row_count, mask, values, c) ==
    LET n == ZipLen(mask, values)
        dictionary == IF kind = "Tag" THEN InsertAll(c.dictionary, values, n)
                      ELSE c.dictionary
    IN  [c EXCEPT
           !.data = c.data \o WrittenCells(kind, row_count, mask, values,
                                           dictionary),
           !.dictionary = dictionary]

\* handle_write and the Bool, String and Tag arms of Column::append
handle_write(kind, row_count, mask, values, c) ==
    LET n == ZipLen(mask, values)
        dictionary == IF kind = "Tag" THEN InsertAll(c.dictionary, values, n)
                      ELSE c.dictionary
    IN  [c EXCEPT
           !.data = c.data \o WrittenCells(kind, row_count, mask, values,
                                           dictionary),
           !.dictionary = dictionary,
           !.stats = UpdateAll(kind, c.stats, values, n)]

\* Column::append: [res |-> Ok, a column::Error or Panic, col |-> the column]
ColumnAppend(c, entry) ==
    LET kind == StorageKind(c.influx_type)
        schema == validate_schema(c, entry)
        row_count == entry.row_count
        m == construct_valid_mask(entry)
    IN  IF schema # Ok THEN [res |-> schema, col |-> c]
        ELSE IF row_count = 0 THEN [res |-> Ok, col |-> c]
        ELSE IF m.res # Ok THEN [res |-> m.res, col |-> c]
        ELSE IF WritePanics(kind, row_count, m.mask, entry.values)
        THEN [res |-> Panic("append"), col |-> c]
        ELSE [res |-> Ok,
              col |-> [handle_write(kind, row_count, m.mask, entry.values, c)
                         EXCEPT !.valid = append_bits(c.valid, row_count,
                                                      m.mask)]]

\* a push_nulls_to_len that extends the validity bitmap and forgets the
\* backing store
push_nulls_valid_only(c, len) ==
    IF ColumnLen(c) = len THEN c
    ELSE [c EXCEPT !.valid = append_unset(c.valid, len - ColumnLen(c))]

\* Column::push_nulls_to_len for len >= the column's length
push_nulls_to_len(c, len) ==
    IF ColumnLen(c) = len THEN c
    ELSE LET delta == len - ColumnLen(c) IN
         [c EXCEPT
            !.valid = append_unset(c.valid, delta),
            !.data = c.data \o Repeat(DefaultValue(StorageKind(c.influx_type)),
                                      delta)]

\* a to_arrow whose String arm passes the validity bitmap on, like the
\* other arms
ColumnToArrowNulls(c) ==
    [i \in 1..Len(c.data) |->
        IF i > Len(c.valid) \/ ~c.valid[i] THEN None
        ELSE IF StorageKind(c.influx_type) = "Tag"
             THEN IF c.data[i] = INVALID_DID THEN Some("\\invalid")
                  ELSE Some(c.dictionary[c.data[i] + 1])
             ELSE Some(c.data[i])]

\* Column::to_arrow: one cell per row of the backing store.  Every arm but
\* the String arm hands the validity bitmap to the array builder, so a cell
\* is None where the bit is unset; the String arm returns
\* PackedStringArray::to_arrow(), which is given no bitmap: all its cells
\* are strings.  A tag cell is the dictionary string of its id.
ColumnToArrow(c) ==
    [i \in 1..Len(c.data) |->
        IF StorageKind(c.influx_type) = "String" THEN Some(c.data[i])
        ELSE IF i > Len(c.valid) \/ ~c.valid[i] THEN None
        ELSE IF StorageKind(c.influx_type) = "Tag"
             THEN IF c.data[i] = INVALID_DID THEN Some("\\invalid")
                  ELSE Some(c.dictionary[c.data[i] + 1])
             ELSE Some(c.data[i])]

(***************************************************************************)
(* MBChunk (mutable_buffer/src/chunk.rs).  The columns of a chunk are a    *)
(* function from the names present to Column values.                       *)
(***************************************************************************)
\* MBChunk::rows reads the length of whichever column the hash map yields
\* first: any column's length, 0 for a chunk without columns
RowsChoices(cols) ==
    IF DOMAIN cols = {} THEN {0}
    ELSE {ColumnLen(cols[n]) : n \in DOMAIN cols}

\* a validation pass that reports expected and actual the wrong way round
ValidateColumnSwapped(cols, column, additional_rows) ==
    IF column.row_count # additional_rows
    THEN IncorrectRowCount(column.name, column.row_count, additional_rows)
    ELSE IF column.name \in DOMAIN cols
            /\ validate_schema(cols[column.name], column) # Ok
    THEN ColumnError(column.name, validate_schema(cols[column.name], column))
    ELSE Ok

\* first pass of write_columns: the first column, in batch order, that
\* fails the row count check or the schema check of an existing column
ValidateColumn(cols, column, additional_rows) ==
    IF column.row_count # additional_rows
    THEN IncorrectRowCount(column.name, additional_rows, column.row_count)
    ELSE IF column.name \in DOMAIN cols
            /\ validate_schema(cols[column.name], column) # Ok
    THEN ColumnError(column.name, validate_schema(cols[column.name], column))
    ELSE Ok

RECURSIVE ValidateAll(_, _, _, _)
ValidateAll(cols, columns, additional_rows, i) ==
    IF i > Len(columns) THEN Ok
    ELSE LET r == ValidateColumn(cols, columns[i], additional_rows) IN
         IF r # Ok THEN r
         ELSE ValidateAll(cols, columns, additional_rows, i + 1)

\* raw_entry_mut().from_key(name).or_insert_with(Column::new(...))
WithColumn(cols, name, c) ==
    [n \in DOMAIN cols \cup {name} |-> IF n = name THEN c ELSE cols[n]]

\* second pass of write_columns from batch column i on: create the column
\* if it is new, append, assert the length
RECURSIVE AppendAll(_, _, _, _, _)
AppendAll(cols, columns, row_count_before_insert, final_row_count, i) ==
    IF i > Len(columns) THEN [res |-> Ok, cols |-> cols]
    ELSE LET fb_column == columns[i]
             name == fb_column.name
             column == IF name \in DOMAIN cols THEN cols[name]
                       ELSE ColumnNew(row_count_before_insert,
                                      fb_column.influx_type)
             inserted == WithColumn(cols, name, column)
             a == ColumnAppend(column, fb_column)
         IN  IF a.res.kind = "Panic" THEN [res |-> a.res, cols |-> inserted]
             ELSE IF a.res # Ok
             THEN [res |-> ColumnError(name, a.res), cols |-> inserted]
             ELSE IF ColumnLen(a.col) # final_row_count
             THEN [res |-> Panic("column.len() == final_row_count"),
                   cols |-> WithColumn(cols, name, a.col)]
             ELSE AppendAll(WithColumn(cols, name, a.col), columns,
                            row_count_before_insert, final_row_count, i + 1)

\* a write_columns whose last pass pads nothing
PadAllSkipped(cols, final_row_count) == [res |-> Ok, cols |-> cols]

\* last pass of write_columns: pad every column to final_row_count
PadAll(cols, final_row_count) ==
    IF \E n \in DOMAIN cols : ColumnLen(cols[n]) > final_row_count
    THEN [res |-> Panic("cannot shrink column"), cols |-> cols]
    ELSE [res |-> Ok,
          cols |-> [n \in DOMAIN cols |->
                      push_nulls_to_len(cols[n], final_row_count)]]

\* MBChunk::write_columns, rows being the value self.rows() returned
write_columns(cols, columns, rows) ==
    LET row_count_before_insert == rows
        additional_rows == IF columns = <<>> THEN 0 ELSE columns[1].row_count
        final_row_count == row_count_before_insert + additional_rows
        v == ValidateAll(cols, columns, additional_rows, 1)
        a == AppendAll(cols, columns, row_count_before_insert,
                       final_row_count, 1)
    IN  IF v # Ok THEN [res |-> v, cols |-> cols]
        ELSE IF a.res # Ok THEN a
        ELSE PadAll(a.cols, final_row_count)

\* MBChunk::to_arrow(Selection::All): every column exported
ChunkToArrow(cols) == [n \in DOMAIN cols |-> ColumnToArrow(cols[n])]

\* ChunkSnapshot::new: the schema and the exported arrays of the chunk at
\* the time of the call
ChunkSnapshotNew(cols) ==
    [schema |-> [n \in DOMAIN cols |-> cols[n].influx_type],
     batch |-> ChunkToArrow(cols)]

\* a record batch needs arrays of one length; snapshot() has no error to
\* return, so a chunk whose columns differ in length cannot be snapshotted
CanSnapshot(cols) ==
    \A n, m \in DOMAIN cols : Len(cols[n].data) = Len(cols[m].data)

\* a write_table_batch that never clears the cache slot
InvalidateNever(slot, res) == slot

\* a write_table_batch that clears the cache slot on the error path only
InvalidateOnError(slot, res) == IF res = Ok THEN slot ELSE None

\* a write_table_batch that clears the cache slot before it calls
\* write_columns
InvalidateFirst(slot, res) == None

\* the cache slot after write_table_batch: cleared once write_columns
\* returned Ok, untouched when `?` returned its error
InvalidateSnapshot(slot, res) == IF res = Ok THEN None ELSE slot

\* the snapshot() of the "nocache" feature: a new object on every call
snapshot_nocache(slot, objects, cols) ==
    [slot |-> Some(Len(objects) + 1),
     objects |-> Append(objects, ChunkSnapshotNew(cols)),
     handle |-> Len(objects) + 1]

\* a snapshot() that rebuilds the last object in place instead of
\* allocating a new one
snapshot_inplace(slot, objects, cols) ==
    IF slot # None
    THEN [slot |-> slot, objects |-> objects, handle |-> slot[1]]
    ELSE IF objects = <<>>
    THEN [slot |-> Some(1), objects |-> <<ChunkSnapshotNew(cols)>>,
          handle |-> 1]
    ELSE [slot |-> Some(Len(objects)),
          objects |-> [objects EXCEPT ![Len(objects)] = ChunkSnapshotNew(cols)],
          handle |-> Len(objects)]

\* MBChunk::snapshot on the cache slot and the heap of snapshot objects
\* (handle h is the h-th object allocated): the cached handle, or a new
\* object that is cached and returned
snapshot_(slot, objects, cols) ==
    IF slot # None
    THEN [slot |-> slot, objects |-> objects, handle |-> slot[1]]
    ELSE [slot |-> Some(Len(objects) + 1),
          objects |-> Append(objects, ChunkSnapshotNew(cols)),
          handle |-> Len(objects) + 1]

\* chunk::Error::ColumnNotFound
ColumnNotFound(column) == Result("ColumnNotFound", column, "", "", "", 0, 0)

\* Selection::All and Selection::Some(cols)
SelectionAll == [all |-> TRUE, cols |-> <<>>]

SelectionSome(cols) == [all |-> FALSE, cols |-> cols]

\* SchemaBuilder::influx_column for each name of names, then build: the
\* fields in the order they were added
SchemaOf(cols, names) ==
    [i \in 1..Len(names) |->
        [name |-> names[i], influx_type |-> cols[names[i]].influx_type]]

\* Schema::sort_fields_by_name: the field with the least name first
RECURSIVE sort_fields_by_name(_)
sort_fields_by_name(fields) ==
    IF fields = <<>> THEN <<>>
    ELSE LET m == CHOOSE i \in 1..Len(fields) :
                      \A j \in 1..Len(fields) :
                          /\ StrRank(fields[i].name) <= StrRank(fields[j].name)
                          /\ (StrRank(fields[i].name) = StrRank(fields[j].name)
                                => i <= j)
         IN  <<fields[m]>>
             \o sort_fields_by_name(
                    [k \in 1..(Len(fields) - 1) |->
                        IF k < m THEN fields[k] ELSE fields[k + 1]])

\* a schema() that returns the fields of Selection::All in the order the
\* hash map iterates
schema_unsorted(cols, selection, iter) ==
    IF selection.all THEN [res |-> Ok, schema |-> SchemaOf(cols, iter)]
    ELSE IF \E i \in 1..Len(selection.cols) : selection.cols[i] \notin DOMAIN cols
    THEN LET i == CHOOSE i \in 1..Len(selection.cols) :
                      /\ selection.cols[i] \notin DOMAIN cols
                      /\ \A j \in 1..(i - 1) : selection.cols[j] \in DOMAIN cols
         IN  [res |-> ColumnNotFound(selection.cols[i]), schema |-> <<>>]
    ELSE [res |-> Ok, schema |-> SchemaOf(cols, selection.cols)]

\* MBChunk::schema, iter being the order in which self.columns.iter() yields
\* the names; MBChunk::column fails with ColumnNotFound at the first name of
\* the selection the chunk does not hold
schema(cols, selection, iter) ==
    IF selection.all
    THEN [res |-> Ok, schema |-> sort_fields_by_name(SchemaOf(cols, iter))]
    ELSE IF \E i \in 1..Len(selection.cols) : selection.cols[i] \notin DOMAIN cols
    THEN LET i == CHOOSE i \in 1..Len(selection.cols) :
                      /\ selection.cols[i] \notin DOMAIN cols
                      /\ \A j \in 1..(i - 1) : selection.cols[j] \in DOMAIN cols
         IN  [res |-> ColumnNotFound(selection.cols[i]), schema |-> <<>>]
    ELSE [res |-> Ok, schema |-> SchemaOf(cols, selection.cols)]

(***************************************************************************)
(* Inputs: the table batches the model writes.                             *)
(***************************************************************************)
Names == {"a", "b"}

\* the logical types a column name arrives with
TypesOf(name) ==
    IF name = "a" THEN {"Tag", "Field(String)"}
    ELSE {"Field(Integer)", "Field(UInteger)"}

\* the null masks and value arrays a column of each type arrives with:
\* one value; two values; a null mask of two bytes; a null row then a
\* value; no values at all
PayloadsOf(t) ==
    CASE t = "Tag" ->
           {<<NoMask, <<"a">> >>, <<NoMask, <<"b", "a">> >>,
            <<NullMask(<<0, 0>>), <<"a">> >>}
      [] t = "Field(String)" ->
           {<<NoMask, <<"a">> >>}
      [] t = "Field(Integer)" ->
           {<<NoMask, <<1>> >>, <<NoMask, <<2, 1>> >>,
            <<NullMask(<<128>>), <<1>> >>, <<NoMask, <<>> >>}
      [] t = "Field(UInteger)" ->
           {<<NoMask, <<1>> >>}

(***************************************************************************)
(* Statistics based pruning (query/src/pruning.rs).  A chunk is what       *)
(* Prunable shows of it: a name, and for each column whether the schema    *)
(* has it, its type, and whether the summary has statistics for it, with   *)
(* their min and max.  Strings are numbered in their order.  A predicate   *)
(* is the list of comparisons it was built from.                           *)
(***************************************************************************)
PruneColumns == {"column1", "column2"}

\* a column of a chunk: schema field and ColumnSummary
ColumnProfile(in_schema, type, has_stats, min, max) ==
    [in_schema |-> in_schema, type |-> type, has_stats |-> has_stats,
     min |-> min, max |-> max]

\* Predicate::filter_expr: no expression for a predicate without
\* comparisons, their conjunction otherwise
filter_expr(predicate) == IF predicate = <<>> THEN None ELSE Some(predicate)

\* PrunableStats::column_summary followed by min_to_scalar: the min of the
\* column's statistics, None without a summary of the column
min_values(chunk, column) ==
    IF chunk[column].has_stats THEN chunk[column].min ELSE None

\* a max_values that returns the min of the statistics
max_values_min(chunk, column) ==
    IF chunk[column].has_stats THEN chunk[column].min ELSE None

\* a max_values that returns a zero where the statistics have no max
max_values_default(chunk, column) ==
    IF chunk[column].has_stats /\ chunk[column].max # None
    THEN chunk[column].max
    ELSE Some(0)

\* PrunableStats::max_values
max_values(chunk, column) ==
    IF chunk[column].has_stats THEN chunk[column].max ELSE None

\* the types whose values the comparison kernels can compare
Comparable(type, lit_type) == (type = "Utf8") = (lit_type = "Utf8")

\* PruningPredicate::try_new: a comparison on a column the schema lacks is
\* rewritten to the literal true, one on a column whose type cannot be
\* compared with the literal fails
PruningPredicateTryNew(filter, chunk) ==
    IF \E i \in 1..Len(filter) :
          /\ chunk[filter[i].column].in_schema
          /\ ~Comparable(chunk[filter[i].column].type, filter[i].lit_type)
    THEN "Err"
    ELSE "Ok"

\* a comparison of a statistic with the literal: null when the statistic is
\* null
Compare3(stat, op, lit) ==
    IF stat = None THEN "null"
    ELSE IF (CASE op = "gt" -> stat[1] > lit
               [] op = "lt" -> stat[1] < lit
               [] op = "le" -> stat[1] <= lit
               [] op = "ge" -> stat[1] >= lit)
         THEN "true" ELSE "false"

\* AND of SQL
And3(a, b) ==
    IF a = "false" \/ b = "false" THEN "false"
    ELSE IF a = "null" \/ b = "null" THEN "null"
    ELSE "true"

\* the rewritten comparison on the statistics of one chunk: col > lit asks
\* max > lit, col < lit asks min < lit, col = lit asks min <= lit <= max
ComparisonOnStats(e, chunk) ==
    IF ~chunk[e.column].in_schema THEN "true"
    ELSE CASE e.op = "gt" -> Compare3(max_values(chunk, e.column), "gt", e.lit)
           [] e.op = "lt" -> Compare3(min_values(chunk, e.column), "lt", e.lit)
           [] e.op = "eq" ->
                And3(Compare3(min_values(chunk, e.column), "le", e.lit),
                     Compare3(max_values(chunk, e.column), "ge", e.lit))

RECURSIVE ConjunctionOnStats(_, _, _)
ConjunctionOnStats(filter, chunk, n) ==
    IF n = 0 THEN "true"
    ELSE And3(ConjunctionOnStats(filter, chunk, n - 1),
              ComparisonOnStats(filter[n], chunk))

\* PruningPredicate::prune on the one row of PrunableStats: an error when
\* no comparison is left that reads a statistic (the record batch of
\* statistics has no column), else whether the rewritten predicate is not
\* false
PruningPredicatePrune(filter, chunk) ==
    IF \A i \in 1..Len(filter) : ~chunk[filter[i].column].in_schema
    THEN [res |-> "Err", results |-> <<>>]
    ELSE [res |-> "Ok",
          results |-> <<ConjunctionOnStats(filter, chunk, Len(filter))
                          # "false">>]

\* the calls of PruningObserver
WasPruned(chunk) == [call |-> "was_pruned", chunk |-> chunk.name, reason |-> ""]

CouldNotPrune(reason) ==
    [call |-> "could_not_prune", chunk |-> "", reason |-> reason]

CouldNotPruneChunk(chunk, reason) ==
    [call |-> "could_not_prune_chunk", chunk |-> chunk.name, reason |-> reason]

\* must_keep: whether the chunk is kept and what the observer is told
must_keep(chunk, filter) ==
    IF PruningPredicateTryNew(filter, chunk) = "Err"
    THEN [keep |-> TRUE,
          events |-> <<CouldNotPruneChunk(chunk,
                                          "Can not create pruning predicate")>>]
    ELSE LET p == PruningPredicatePrune(filter, chunk)
         IN  IF p.res = "Ok"
             THEN [keep |-> p.results[1],
                   events |-> IF ~p.results[1] THEN <<WasPruned(chunk)>>
                              ELSE <<>>]
             ELSE [keep |-> TRUE,
                   events |-> <<CouldNotPruneChunk(
                                   chunk,
                                   "Can not evaluate pruning predicate")>>]

\* a filter that collects the chunks it keeps behind the later ones
RECURSIVE FilterChunksReversed(_, _, _)
FilterChunksReversed(summaries, filter, i) ==
    IF i > Len(summaries) THEN [out |-> <<>>, events |-> <<>>]
    ELSE LET k == must_keep(summaries[i], filter)
             rest == FilterChunksReversed(summaries, filter, i + 1)
         IN  [out |-> rest.out \o (IF k.keep THEN <<summaries[i]>> ELSE <<>>),
              events |-> k.events \o rest.events]

\* a filter that creates one pruning predicate, from the schema of the
\* first chunk, and keeps every chunk when that fails
RECURSIVE FilterChunksGrouped(_, _, _)
FilterChunksGrouped(summaries, filter, i) ==
    IF i > Len(summaries) THEN [out |-> <<>>, events |-> <<>>]
    ELSE LET k == IF PruningPredicateTryNew(filter, summaries[1]) = "Err"
                  THEN [keep |-> TRUE,
                        events |-> <<CouldNotPruneChunk(
                                        summaries[i],
                                        "Can not create pruning predicate")>>]
                  ELSE must_keep(summaries[i], filter)
             rest == FilterChunksGrouped(summaries, filter, i + 1)
         IN  [out |-> (IF k.keep THEN <<summaries[i]>> ELSE <<>>) \o rest.out,
              events |-> k.events \o rest.events]

\* summaries.into_iter().filter(must_keep).collect() from chunk i on
RECURSIVE FilterChunks(_, _, _)
FilterChunks(summaries, filter, i) ==
    IF i > Len(summaries) THEN [out |-> <<>>, events |-> <<>>]
    ELSE LET k == must_keep(summaries[i], filter)
             rest == FilterChunks(summaries, filter, i + 1)
         IN  [out |-> (IF k.keep THEN <<summaries[i]>> ELSE <<>>) \o rest.out,
              events |-> k.events \o rest.events]

\* a prune_chunks that filters the chunks whatever the predicate holds
prune_chunks_unfiltered(summaries, predicate) ==
    FilterChunks(summaries, predicate, 1)

\* prune_chunks
prune_chunks(summaries, predicate) ==
    LET expr == filter_expr(predicate)
    IN  IF expr = None
        THEN [out |-> summaries,
              events |-> <<CouldNotPrune("No expression on predicate")>>]
        ELSE FilterChunks(summaries, expr[1], 1)

\* no prune_chunks call is being looked at
NoPruning == [called |-> FALSE, summaries |-> <<>>, predicate |-> <<>>,
              out |-> <<>>, events |-> <<>>]

(***************************************************************************)
(* The write buffer: Buffer and Segment of server/src/buffer.rs.  A write  *)
(* is a SequencedEntry, known by its clock value, its writer and its size. *)
(***************************************************************************)
SequencedEntry(clock_value, writer_id, size) ==
    [clock_value |-> clock_value, writer_id |-> writer_id, size |-> size]

\* WriterSequence order: by clock value, then by writer
SequenceLess(a, b) ==
    \/ a.clock_value < b.clock_value
    \/ a.clock_value = b.clock_value /\ a.writer_id < b.writer_id

\* BTreeMap::insert: the entries stay in key order, an entry of the same
\* key is replaced
BTreeInsert(entries, write) ==
    LET less == SelectSeq(entries, LAMBDA e : SequenceLess(e, write))
        more == SelectSeq(entries, LAMBDA e : SequenceLess(write, e))
    IN  less \o <<write>> \o more

\* Segment::new
SegmentNew(id, writer_id) ==
    [id |-> id, size |-> 0, sequenced_entries |-> <<>>,
     writer_id |-> writer_id, persisted |-> FALSE]

\* Segment::append
SegmentAppend(segment, write) ==
    [segment EXCEPT !.size = @ + write.size,
                    !.sequenced_entries = BTreeInsert(@, write)]

\* Segment::set_persisted
set_persisted(segment) == [segment EXCEPT !.persisted = TRUE]

\* what Buffer::append returns: Ok(None), Ok(Some(segment)) by the id of the
\* segment, Err(UnableToDropSegment), or a panic
AppendOk(closed_segment) ==
    [kind |-> "Ok", closed_segment |-> closed_segment, size |-> 0,
     segment_count |-> 0]

UnableToDropSegment(size, segment_count) ==
    [kind |-> "UnableToDropSegment", closed_segment |-> None, size |-> size,
     segment_count |-> segment_count]

AppendPanic ==
    [kind |-> "Panic", closed_segment |-> None, size |-> 0,
     segment_count |-> 0]

\* Buffer::new
BufferNew(writer_id, max_size, segment_size, rollover_behavior) ==
    [writer_id |-> writer_id, max_size |-> max_size,
     segment_size |-> segment_size, rollover_behavior |-> rollover_behavior,
     open_segment |-> SegmentNew(1, writer_id), current_size |-> 0,
     closed_segments |-> <<>>]

\* Buffer::remove_oldest_segment, of a buffer with a closed segment
remove_oldest_segment(b) ==
    [b EXCEPT !.closed_segments = Tail(@),
              !.current_size = @ - Head(b.closed_segments).size]

\* The while loop of Buffer::append: [buffer, res], res "room" when the
\* write fits, else what append returns.  Vec::remove(0) panics on a buffer
\* without closed segments.
RECURSIVE MakeRoom(_, _)
MakeRoom(b, write_size) ==
    IF b.current_size + write_size <= b.max_size
    THEN [buffer |-> b, res |-> "room", out |-> AppendOk(None)]
    ELSE LET oldest_is_persisted ==
                 /\ b.closed_segments # <<>>
                 /\ b.closed_segments[1].persisted
         IN  IF oldest_is_persisted
             THEN MakeRoom(remove_oldest_segment(b), write_size)
             ELSE CASE b.rollover_behavior = "DropIncoming"
                         -> [buffer |-> b, res |-> "return",
                             out |-> AppendOk(None)]
                    [] b.rollover_behavior = "DropOldSegment"
                         -> IF b.closed_segments = <<>>
                            THEN [buffer |-> b, res |-> "return",
                                  out |-> AppendPanic]
                            ELSE MakeRoom(remove_oldest_segment(b),
                                          write_size)
                    [] b.rollover_behavior = "ReturnError"
                         -> [buffer |-> b, res |-> "return",
                             out |-> UnableToDropSegment(
                                         b.current_size,
                                         Len(b.closed_segments))]

\* Buffer::append: [buffer |-> the buffer after the call, out |-> what the
\* call returned]
BufferAppend(b, write) ==
    LET r == MakeRoom(b, write.size) IN
    IF r.res = "return" THEN [buffer |-> r.buffer, out |-> r.out]
    ELSE LET open == SegmentAppend(r.buffer.open_segment, write)
             sized == [r.buffer EXCEPT !.current_size = @ + write.size]
         IN  IF open.size > b.segment_size
             THEN [buffer |-> [sized EXCEPT
                       !.open_segment = SegmentNew(open.id + 1, b.writer_id),
                       !.closed_segments = Append(@, open)],
                   out |-> AppendOk(Some(open.id))]
             ELSE [buffer |-> [sized EXCEPT !.open_segment = open],
                   out |-> AppendOk(None)]

WriterSequence(clock_value, writer_id) ==
    [clock_value |-> clock_value, writer_id |-> writer_id]

Reverse(s) == [i \in 1..Len(s) |-> s[Len(s) + 1 - i]]

\* the entries of the segments, each segment in key order
RECURSIVE SegmentEntries(_, _)
SegmentEntries(segments, n) ==
    IF n = 0 THEN <<>>
    ELSE SegmentEntries(segments, n - 1) \o segments[n].sequenced_entries

\* the entries in the order the loops of all_writes_since visit them: the
\* open segment from its greatest key down, then the closed segments from
\* the newest to the oldest, each from its greatest key down
NewestFirst(b) ==
    Reverse(SegmentEntries(b.closed_segments, Len(b.closed_segments))
            \o b.open_segment.sequenced_entries)

\* the writes pushed before the loops meet an entry with
\* since <= writer_sequence
RECURSIVE PushedUntil(_, _)
PushedUntil(entries, since) ==
    IF entries = <<>> THEN <<>>
    ELSE IF ~SequenceLess(Head(entries), since) THEN <<>>
    ELSE <<Head(entries)>> \o PushedUntil(Tail(entries), since)

\* Buffer::all_writes_since
all_writes_since(b, since) == Reverse(PushedUntil(NewestFirst(b), since))

\* no Buffer constructed yet
NoBuffer ==
    [created |-> FALSE, state |-> BufferNew(1, 0, 0, "ReturnError"),
     call |-> "none", write |-> SequencedEntry(0, 0, 0),
     out |-> AppendOk(None), since |-> WriterSequence(0, 0),
     writes |-> <<>>]

(***************************************************************************)
(* The server configuration: Config, ConfigState and CreateDatabaseHandle  *)
(* of server/src/config.rs.  A ConfigState is the set of reserved names,   *)
(* the map of committed databases (name -> whether the JoinHandle of the   *)
(* background worker is still there) and whether shutdown was cancelled.   *)
(***************************************************************************)
ConfigNew ==
    [reservations |-> {}, databases |-> [n \in {} |-> TRUE],
     shutdown |-> FALSE, panicked |-> FALSE]

\* a create_db that looks at the committed databases only
create_db_committed_only(state, name) ==
    IF name \in DOMAIN state.databases
    THEN [state |-> state, out |-> "DatabaseAlreadyExists"]
    ELSE [state |-> [state EXCEPT !.reservations = @ \cup {name}],
          out |-> "Ok"]

\* Config::create_db: [state, out], out "Ok" when a CreateDatabaseHandle is
\* returned
create_db(state, name) ==
    IF name \in state.reservations \/ name \in DOMAIN state.databases
    THEN [state |-> state, out |-> "DatabaseAlreadyExists"]
    ELSE [state |-> [state EXCEPT !.reservations = @ \cup {name}],
          out |-> "Ok"]

\* Config::commit, called by CreateDatabaseHandle::commit
commit(state, name) ==
    IF name \notin state.reservations
    THEN [state EXCEPT !.panicked = TRUE]
    ELSE LET taken == [state EXCEPT !.reservations = @ \ {name}] IN
         IF state.shutdown THEN taken
         ELSE IF name \in DOMAIN state.databases
         THEN [taken EXCEPT !.panicked = TRUE]
         ELSE [taken EXCEPT
                 !.databases = [n \in DOMAIN @ \cup {name} |->
                                   IF n = name THEN TRUE ELSE @[n]]]

\* a rollback that leaves the reservation
rollback_keeping(state, name) == state

\* Config::rollback, called when a CreateDatabaseHandle is dropped
rollback(state, name) == [state EXCEPT !.reservations = @ \ {name}]

\* the write-locked part of Config::drain: every JoinHandle is taken
drain_join(state) ==
    [state EXCEPT !.databases = [n \in DOMAIN @ |-> FALSE]]

\* a caller of the Config: the create_db call it is in, the handle it holds
\* and what its last call returned
NoCaller == [pc |-> "idle", name |-> "", handle |-> "", out |-> "none",
             raced |-> FALSE]

\* no Config constructed yet
NoConfig == [created |-> FALSE, state |-> ConfigNew, draining |-> FALSE,
             callers |-> <<>>]

(***************************************************************************)
(* One MBChunk used by several threads.  write_table_batch takes &mut self *)
(* and snapshot() takes &self: a thread is inside write_table_batch only   *)
(* while no other thread is inside either method.  The snapshot field is a *)
(* Mutex over the cache slot.                                              *)
(***************************************************************************)
\* a write_table_batch that starts while snapshot() calls are running
CanWriteShared(chunk) == chunk.writer = 0

\* &mut self: no other thread uses the chunk
CanWrite(chunk) == chunk.writer = 0 /\ chunk.readers = {}

\* &self: no thread has the chunk exclusively
CanRead(chunk) == chunk.writer = 0

\* a lock() that does not wait for the holder
MutexFreeAlways(chunk) == TRUE

\* Mutex::lock returns, and try_lock returns Some, when no guard is alive
MutexFree(chunk) == chunk.mutex = 0

\* a thread outside the chunk's methods: where it is, the Arc it holds in a
\* local, the Arc its last snapshot() since the last write returned, and
\* whether that call ran while another snapshot() call was running
NoThread == [pc |-> "idle", local |-> 0, got |-> 0, overlap |-> FALSE]

\* MBChunk::new with its threads; the slot is 0 for None, else the number
\* of the ChunkSnapshot; built counts the ChunkSnapshot::new calls in all,
\* since those after the last write_table_batch call; fresh tells that the
\* slot was None when that call ended
NewChunk(threads) ==
    [writer |-> 0, readers |-> {}, mutex |-> 0, slot |-> 0, built |-> 0,
     since |-> 0, fresh |-> TRUE, writes |-> 0, panicked |-> FALSE,
     threads |-> [t \in threads |-> NoThread]]

(***************************************************************************)
(* State.                                                                  *)
(***************************************************************************)
VARIABLES
    columns,    \* MBChunk.columns: name -> Column
    snapshot,   \* MBChunk.snapshot: the cache slot, None or Some(handle)
    objects,    \* the ChunkSnapshot objects allocated so far, by handle
    op,         \* the call that has just returned, "idle" between calls
    result,     \* what it returned
    batch,      \* the columns the last write was given
    rows,       \* what self.rows() returned to the last write
    clean,      \* every write so far was a write_table_batch returning Ok
    written,    \* name -> the cells the batches written so far supplied
    ret,        \* the last snapshot() call: handle and what was known of it
    handles,    \* handle -> the writes since snapshot() last returned it
    wtbLens,    \* name -> rows after the last write_table_batch returning Ok
                \* (kept for the chunk with readers)
    read,       \* the last schema() call: its selection and what it returned
    dict,       \* a StringDictionary on its own: its storage, the last
                \* lookup_value_or_insert call, the symbol each string got first
    pruning,    \* the last prune_chunks call: its input, what it returned
                \* and what the observer was told
    buffer,     \* a write buffer: the Buffer, the last call on it and what
                \* it returned
    config,     \* a Config: its ConfigState and the callers using it
    shared      \* one MBChunk used by several threads: who is inside it, the cache mutex and slot

vars == <<columns, snapshot, objects, op, result, batch, rows, clean,
          written, ret, handles, wtbLens, read, dict, pruning,
          buffer,
          config,
          shared>>

\* StringDictionary::new, no call made
NoDict == [storage |-> <<>>, value |-> "", id |-> INVALID_DID,
           symbols |-> [s \in {} |-> 0], call |-> "new", arg |-> 0,
           out |-> None, panicked |-> FALSE]

\* no schema() call is being looked at
NoRead == [selection |-> SelectionSome(<<>>), schema |-> <<>>]

NoColumns == [n \in {} |-> 0]

Init ==
    /\ columns = NoColumns
    /\ snapshot = None
    /\ objects = <<>>
    /\ op = "idle"
    /\ result = Ok
    /\ batch = <<>>
    /\ rows = 0
    /\ clean = TRUE
    /\ written = NoColumns
    /\ ret = [handle |-> 0, prior |-> "none", quiet |-> FALSE]
    /\ handles = NoColumns
    /\ wtbLens = NoColumns
    /\ read = NoRead
    /\ dict = NoDict
    /\ pruning = NoPruning
    /\ buffer = NoBuffer
    /\ config = NoConfig
    /\ shared = NewChunk(1..MaxThreads)

\* a thread that panicked inside the chunk leaves it behind
Usable == result.kind # "Panic"

\* no call is being looked at: the next one may start
Idle == op = "idle" /\ Usable

\* the first batch column of a name
FirstNamed(cs, name) == cs[CHOOSE i \in 1..Len(cs) :
                              /\ cs[i].name = name
                              /\ \A j \in 1..(i - 1) : cs[j].name # name]

BatchNames(cs) == {cs[i].name : i \in 1..Len(cs)}

\* the cells the batches supplied, after one more batch of additional_rows
\* rows was written to a chunk of rows_before rows
WrittenAfter(w, cs, rows_before, additional_rows) ==
    [n \in DOMAIN w \cup BatchNames(cs) |->
        (IF n \in DOMAIN w THEN w[n] ELSE Repeat(None, rows_before))
        \o (IF n \in BatchNames(cs) THEN EntryColumnCells(FirstNamed(cs, n))
            ELSE Repeat(None, additional_rows))]

\* a write_table_batch call was made: every handle returned so far is now
\* older than a write
NoteWrite(h, res) ==
    [x \in DOMAIN h |->
        IF res = Ok THEN "ok write since"
        ELSE IF h[x] = "live" THEN "failed write since" ELSE h[x]]

\* the record of what the batches supplied, kept for as long as every call
\* made was a write_table_batch call that returned Ok
TrackWritten ==
    LET additional_rows == IF batch' = <<>> THEN 0 ELSE batch'[1].row_count
    IN  /\ clean' = (clean /\ result' = Ok /\ op' = "write_table_batch")
        /\ written' = IF clean'
                      THEN WrittenAfter(written, batch', rows', additional_rows)
                      ELSE NoColumns
        /\ UNCHANGED wtbLens

\* the record of the rows each column had when write_table_batch last
\* returned Ok
TrackLens ==
    /\ wtbLens' = IF result' = Ok /\ op' = "write_table_batch"
                  THEN [n \in DOMAIN columns' |-> ColumnLen(columns'[n])]
                  ELSE wtbLens
    /\ UNCHANGED <<clean, written>>

\* the part of a write that both entry points share
Write(cs, r, name) ==
    LET w == write_columns(columns, cs, r)
        additional_rows == IF cs = <<>> THEN 0 ELSE cs[1].row_count
    IN  /\ Idle
        /\ r + additional_rows <= MaxRows
        /\ columns' = w.cols
        /\ result' = w.res
        /\ op' = name
        /\ batch' = cs
        /\ rows' = r
        /\ UNCHANGED <<objects, read, dict, pruning, buffer,
          config,
          shared>>

\* MBChunk::write_table_batch
write_table_batch(fbcolumns) ==
    \E r \in RowsChoices(columns) :
        /\ Write(TableBatchColumns(fbcolumns), r, "write_table_batch")
        /\ snapshot' = InvalidateSnapshot(snapshot, result')
        /\ handles' = NoteWrite(handles, result')
        /\ ret' = [ret EXCEPT !.quiet = FALSE]

\* MBChunk::write_columns called directly, with the row count of the last
\* column raised by the caller (entry::Column.row_count is a public field)
WriteColumnsDirect(fbcolumns) ==
    \E r \in RowsChoices(columns) :
    \E i \in {Len(fbcolumns)} \ {0} :
        /\ Write([TableBatchColumns(fbcolumns) EXCEPT ![i].row_count = @ + 1],
                 r, "write_columns")
        /\ UNCHANGED <<snapshot, handles, ret>>

\* MBChunk::snapshot
Snapshot ==
    LET s == snapshot_(snapshot, objects, columns) IN
    /\ Idle
    /\ op' = "snapshot"
    /\ batch' = <<>>
    /\ rows' = 0
    /\ UNCHANGED <<columns, clean, written, wtbLens, read, dict,
                   pruning, buffer,
          config,
          shared>>
    /\ IF snapshot = None /\ ~CanSnapshot(columns)
       THEN /\ result' = Panic("to_arrow")
            /\ UNCHANGED <<snapshot, objects, ret, handles>>
       ELSE /\ Len(s.objects) <= MaxSnapshots
            /\ result' = Ok
            /\ snapshot' = s.slot
            /\ objects' = s.objects
            /\ ret' = [handle |-> s.handle,
                       prior |-> IF s.handle \in DOMAIN handles
                                 THEN handles[s.handle] ELSE "new",
                       quiet |-> TRUE]
            /\ handles' = [x \in DOMAIN handles \cup {s.handle} |->
                             IF x = s.handle THEN "live" ELSE handles[x]]

\* the payloads the chunk with readers is written with: integers that are
\* accepted, tags whose null mask is rejected
ReaderPayloadsOf(t) ==
    {p \in PayloadsOf(t) :
        /\ Len(p[2]) = 1
        /\ t # "Field(String)"
        /\ (t = "Tag") = (p[1].some /\ Len(p[1].bytes) = 2)}

\* one column of a batch
ExistsColumn(Payloads(_), P(_)) ==
    \E name \in Names : \E t \in TypesOf(name) : \E p \in Payloads(t) :
        P(EntryColumn(name, t, 0, p[1], p[2]))

\* a batch of no, one or two columns
ExistsBatch(Payloads(_), P(_)) ==
    \/ P(<<>>)
    \/ ExistsColumn(Payloads, LAMBDA c : P(<<c>>))
    \/ ExistsColumn(Payloads,
                    LAMBDA c : ExistsColumn(Payloads, LAMBDA d : P(<<c, d>>)))

WriteTableBatch ==
    ExistsBatch(PayloadsOf, LAMBDA cs : write_table_batch(cs) /\ TrackWritten)

WriteColumns ==
    ExistsBatch(PayloadsOf, LAMBDA cs : WriteColumnsDirect(cs) /\ TrackWritten)

WriteTableBatchReaders ==
    ExistsBatch(ReaderPayloadsOf,
                LAMBDA cs : write_table_batch(cs) /\ TrackLens)

WriteColumnsReaders ==
    ExistsBatch(ReaderPayloadsOf,
                LAMBDA cs : WriteColumnsDirect(cs) /\ TrackLens)

\* the caller has looked at the result of the call and drops the batch
Return ==
    /\ op # "idle"
    /\ Usable
    /\ op' = "idle"
    /\ result' = Ok
    /\ batch' = <<>>
    /\ rows' = 0
    /\ read' = NoRead
    /\ UNCHANGED <<columns, snapshot, objects, clean, written, ret, handles,
                   wtbLens, dict, pruning, buffer,
          config,
          shared>>

Next == WriteTableBatch \/ WriteColumns \/ Return

Spec == Init /\ [][Next]_vars

\* the chunk with its readers: writes and snapshot() calls
NextSnapshot ==
    WriteTableBatchReaders \/ WriteColumnsReaders \/ Snapshot \/ Return

SpecSnapshot == Init /\ [][NextSnapshot]_vars

(***************************************************************************)
(* A Column on its own: Column::new, then append and push_nulls_to_len     *)
(* calls with batch columns of every logical type.  The column is kept     *)
(* under the name "c".                                                     *)
(***************************************************************************)
\* two values of each storage kind
ValuesOfKind(kind) ==
    CASE kind = "Bool"   -> <<TRUE, FALSE>>
      [] kind = "U64"    -> <<1, 2>>
      [] kind = "F64"    -> <<F64(1), NaN>>
      [] kind = "I64"    -> <<1, 2>>
      [] kind = "String" -> <<"a", "b">>
      [] kind = "Tag"    -> <<"a", "b">>

\* <<row_count, null mask, values>> of the batch columns a Column is given:
\* no rows; one value; a null row then a value; a value then a null row; a
\* null mask of two bytes; a row without a value; two values for one row;
\* two rows with the two values in either order
ColumnPayloadsOf(t) ==
    LET v == ValuesOfKind(StorageKind(t)) IN
    {<<0, NoMask, <<>> >>,
     <<1, NoMask, <<v[1]>> >>,
     <<2, NullMask(<<128>>), <<v[1]>> >>,
     <<2, NullMask(<<64>>), <<v[2]>> >>,
     <<1, NullMask(<<0, 0>>), <<v[1]>> >>,
     <<1, NoMask, <<>> >>,
     <<1, NoMask, <<v[2], v[2]>> >>,
     <<1, NoMask, <<v[1], v[2]>> >>,
     <<2, NoMask, <<v[1], v[2]>> >>,
     <<2, NoMask, <<v[2], v[1]>> >>}

\* a logical type other than t
OtherType(t) == IF t = "Tag" THEN "Field(String)" ELSE "Tag"

ChunkUnchanged == UNCHANGED <<snapshot, objects, clean, written, ret,
                               handles, wtbLens, read, dict, pruning,
                               buffer,
          config,
          shared>>

\* Column::new
ColNew ==
    /\ Idle
    /\ columns = NoColumns
    /\ \E t \in InfluxColumnTypes : \E n \in 0..MaxRows :
          /\ columns' = [x \in {"c"} |-> ColumnNew(n, t)]
          /\ rows' = n
    /\ op' = "new"
    /\ result' = Ok
    /\ batch' = <<>>
    /\ ChunkUnchanged

\* Column::append with a batch column of the column's type or of another
ColAppend ==
    /\ Idle
    /\ "c" \in DOMAIN columns
    /\ \E t \in {columns["c"].influx_type, OtherType(columns["c"].influx_type)} :
       \E p \in ColumnPayloadsOf(t) :
          LET entry == EntryColumn("c", t, p[1], p[2], p[3])
              a == ColumnAppend(columns["c"], entry)
          IN  /\ ColumnLen(columns["c"]) + p[1] <= MaxRows
              /\ columns' = [x \in {"c"} |-> a.col]
              /\ result' = a.res
              /\ batch' = <<entry>>
    /\ rows' = ColumnLen(columns["c"])
    /\ op' = "append"
    /\ ChunkUnchanged

\* Column::push_nulls_to_len
ColPushNulls ==
    /\ Idle
    /\ "c" \in DOMAIN columns
    /\ \E len \in 0..MaxRows :
          IF len < ColumnLen(columns["c"])
          THEN /\ result' = Panic("cannot shrink column")
               /\ UNCHANGED columns
          ELSE /\ result' = Ok
               /\ columns' = [x \in {"c"} |->
                                push_nulls_to_len(columns["c"], len)]
    /\ rows' = ColumnLen(columns["c"])
    /\ op' = "push_nulls_to_len"
    /\ batch' = <<>>
    /\ ChunkUnchanged

NextColumn == ColNew \/ ColAppend \/ ColPushNulls \/ Return

SpecColumn == Init /\ [][NextColumn]_vars

(***************************************************************************)
(* The chunk and its schema() calls: batches of one row over three column  *)
(* names, and selections over those names.                                 *)
(***************************************************************************)
SchemaNames == {"a", "b", "c"}

\* the sequences over S that name no element twice
NoRepeat(S) ==
    UNION {{s \in [1..n -> S] : \A i, j \in 1..n : s[i] = s[j] => i = j} :
             n \in 0..Cardinality(S)}

\* the logical type a column name arrives with
SchemaTypeOf(name) ==
    CASE name = "a" -> "Tag"
      [] name = "b" -> "Field(Integer)"
      [] name = "c" -> "Timestamp"

\* a batch of one row with a value for each of the names
SchemaBatch(names) ==
    [i \in 1..Len(names) |->
        EntryColumn(names[i], SchemaTypeOf(names[i]), 0, NoMask,
                    <<ValuesOfKind(StorageKind(SchemaTypeOf(names[i])))[1]>>)]

WriteSchemaBatch ==
    \E names \in NoRepeat(SchemaNames) :
        write_table_batch(SchemaBatch(names)) /\ TrackLens

\* the selections schema() is called with: All, and Some of names that
\* are not repeated
Selections ==
    {SelectionAll} \cup {SelectionSome(s) : s \in NoRepeat(SchemaNames)}

\* MBChunk::schema
Schema ==
    /\ Idle
    /\ \E selection \in Selections :
       \E iter \in {s \in NoRepeat(DOMAIN columns) :
                       Len(s) = Cardinality(DOMAIN columns)} :
          LET s == schema(columns, selection, iter)
          IN  /\ result' = s.res
              /\ read' = [selection |-> selection, schema |-> s.schema]
    /\ op' = "schema"
    /\ batch' = <<>>
    /\ rows' = 0
    /\ UNCHANGED <<columns, snapshot, objects, clean, written, ret, handles,
                   wtbLens, dict, pruning, buffer,
          config,
          shared>>

NextSchema == WriteSchemaBatch \/ Schema \/ Return

SpecSchema == Init /\ [][NextSchema]_vars

(***************************************************************************)
(* A StringDictionary on its own, given strings to look up or insert.      *)
(***************************************************************************)
DictStrings == {StrOrder[i] : i \in 1..Len(StrOrder)} \cup {"womble"}

\* the symbols lookup_id is called with: every value of K
DictSymbols == KMin..KMax

\* a panic inside the dictionary leaves it behind
DictUsable == ~dict.panicked

\* StringDictionary::lookup_value_or_insert
DictInsert ==
    /\ DictUsable
    /\ Len(dict.storage) <= Cardinality(DictStrings)
    /\ \E value \in DictStrings :
          LET r == lookup_value_or_insert(dict.storage, value)
          IN  dict' = [storage |-> r.dictionary,
                       value |-> value,
                       id |-> r.id,
                       symbols |->
                           IF r.panic THEN dict.symbols
                           ELSE [s \in DOMAIN dict.symbols \cup {value} |->
                                   IF s \in DOMAIN dict.symbols
                                   THEN dict.symbols[s] ELSE r.id],
                       call |-> "lookup_value_or_insert",
                       arg |-> 0,
                       out |-> None,
                       panicked |-> r.panic]
    /\ UNCHANGED <<columns, snapshot, objects, op, result, batch, rows, clean,
                   written, ret, handles, wtbLens, read, pruning,
                   buffer,
          config,
          shared>>

\* StringDictionary::id, and lookup_value which calls it
DictId ==
    /\ DictUsable
    /\ Len(dict.storage) <= Cardinality(DictStrings)
    /\ \E name \in {"id", "lookup_value"} : \E value \in DictStrings :
          LET r == dictionary_id(dict.storage, value)
          IN  dict' = [dict EXCEPT !.storage = r.dictionary,
                                   !.value = value,
                                   !.id = INVALID_DID,
                                   !.call = name,
                                   !.arg = 0,
                                   !.out = r.out]
    /\ UNCHANGED <<columns, snapshot, objects, op, result, batch, rows, clean,
                   written, ret, handles, wtbLens, read, pruning,
                   buffer,
          config,
          shared>>

\* StringDictionary::lookup_id
DictLookupId ==
    /\ DictUsable
    /\ \E id \in DictSymbols :
          dict' = [dict EXCEPT !.value = "",
                               !.id = INVALID_DID,
                               !.call = "lookup_id",
                               !.arg = id,
                               !.out = lookup_id(dict.storage, id)]
    /\ UNCHANGED <<columns, snapshot, objects, op, result, batch, rows, clean,
                   written, ret, handles, wtbLens, read, pruning,
                   buffer,
          config,
          shared>>

NextDictionary == DictInsert \/ DictId \/ DictLookupId

SpecDictionary == Init /\ [][NextDictionary]_vars

(***************************************************************************)
(* prune_chunks on lists of chunks and predicates.                         *)
(***************************************************************************)
\* the first column of a chunk: not in the schema; in the schema without
\* statistics; Int64 with bounds below, around and above the literal, with
\* both bounds null, with one bound null; UInt64; Utf8
Column1Profiles ==
    {ColumnProfile(FALSE, "Int64", FALSE, None, None),
     ColumnProfile(TRUE, "Int64", FALSE, None, None),
     ColumnProfile(TRUE, "Int64", TRUE, Some(0), Some(0)),
     ColumnProfile(TRUE, "Int64", TRUE, Some(0), Some(2)),
     ColumnProfile(TRUE, "Int64", TRUE, Some(2), Some(2)),
     ColumnProfile(TRUE, "Int64", TRUE, None, None),
     ColumnProfile(TRUE, "Int64", TRUE, None, Some(0)),
     ColumnProfile(TRUE, "UInt64", TRUE, Some(2), Some(2)),
     ColumnProfile(TRUE, "Utf8", TRUE, Some(0), Some(2))}

\* the second column of a chunk
Column2Profiles ==
    {ColumnProfile(TRUE, "Int64", FALSE, None, None),
     ColumnProfile(TRUE, "Int64", TRUE, Some(0), Some(0)),
     ColumnProfile(TRUE, "Int64", TRUE, Some(2), Some(2))}

ChunkNames == <<"chunk1", "chunk2", "chunk3", "chunk4">>

\* the i-th chunk of a list
PrunableChunk(i, column1, column2) ==
    [name |-> ChunkNames[i], column1 |-> column1, column2 |-> column2]

\* a comparison of a column with a literal
Comparison(column, cmp, lit_type, lit) ==
    [column |-> column, op |-> cmp, lit_type |-> lit_type, lit |-> lit]

\* the predicates: none; column1 > 1, < 1, = 1; column1 against a string
\* literal; column2 < 1; column1 > 1 AND column2 < 1
Predicates ==
    {<<>>,
     <<Comparison("column1", "gt", "Int64", 1)>>,
     <<Comparison("column1", "lt", "Int64", 1)>>,
     <<Comparison("column1", "eq", "Int64", 1)>>,
     <<Comparison("column1", "lt", "Utf8", 1)>>,
     <<Comparison("column2", "lt", "Int64", 1)>>,
     <<Comparison("column1", "gt", "Int64", 1),
       Comparison("column2", "lt", "Int64", 1)>>}

\* prune_chunks
PruneChunks ==
    /\ ~pruning.called
    /\ \E n \in 0..MaxChunks :
       \E c1 \in [1..n -> Column1Profiles] :
       \E c2 \in [1..n -> Column2Profiles] :
       \E predicate \in Predicates :
          LET summaries == [i \in 1..n |-> PrunableChunk(i, c1[i], c2[i])]
              r == prune_chunks(summaries, predicate)
          IN  pruning' = [called |-> TRUE, summaries |-> summaries,
                          predicate |-> predicate, out |-> r.out,
                          events |-> r.events]
    /\ UNCHANGED <<columns, snapshot, objects, op, result, batch, rows, clean,
                   written, ret, handles, wtbLens, read, dict,
                   buffer,
          config,
          shared>>

\* the caller has looked at what prune_chunks returned
PruneReturn ==
    /\ pruning.called
    /\ pruning' = NoPruning
    /\ UNCHANGED <<columns, snapshot, objects, op, result, batch, rows, clean,
                   written, ret, handles, wtbLens, read, dict,
                   buffer,
          config,
          shared>>

NextPruning == PruneChunks \/ PruneReturn

SpecPruning == Init /\ [][NextPruning]_vars

(***************************************************************************)
(* The write buffer on its own: a Buffer is constructed with a size limit, *)
(* a segment size and a rollover behaviour, writes are appended to it and  *)
(* closed segments it still holds are marked persisted.                    *)
(***************************************************************************)
WriteBufferRollover == {"DropOldSegment", "DropIncoming", "ReturnError"}

\* the sizes of the writes, and the buffer and segment size limits
WriteSizes == 1..3

MaxSizes == {2, 3}

SegmentSizes == {0, 2}

ClockValues == 1..2

WriterIds == 1..2

\* the buffer has not panicked
BufferUsable == buffer.created /\ buffer.out.kind # "Panic"

BufferUnchanged ==
    UNCHANGED <<columns, snapshot, objects, op, result, batch, rows, clean,
                written, ret, handles, wtbLens, read, dict, pruning, config,
          shared>>

\* Buffer::new
NewBuffer ==
    /\ ~buffer.created
    /\ \E max_size \in MaxSizes : \E segment_size \in SegmentSizes :
       \E rollover_behavior \in WriteBufferRollover :
          buffer' = [NoBuffer EXCEPT
                       !.created = TRUE,
                       !.state = BufferNew(1, max_size, segment_size,
                                           rollover_behavior),
                       !.call = "new"]
    /\ BufferUnchanged

\* Buffer::append
AppendWrite ==
    /\ BufferUsable
    /\ buffer.state.open_segment.id <= MaxSegments
    /\ \E clock_value \in ClockValues : \E writer_id \in WriterIds :
       \E size \in WriteSizes :
          LET write == SequencedEntry(clock_value, writer_id, size)
              a == BufferAppend(buffer.state, write)
          IN  buffer' = [buffer EXCEPT !.state = a.buffer,
                                       !.call = "append",
                                       !.write = write,
                                       !.out = a.out,
                                       !.since = WriterSequence(0, 0),
                                       !.writes = <<>>]
    /\ BufferUnchanged

\* Segment::set_persisted on a closed segment the buffer holds
SetPersisted ==
    /\ BufferUsable
    /\ \E i \in 1..Len(buffer.state.closed_segments) :
          /\ ~buffer.state.closed_segments[i].persisted
          /\ buffer' = [buffer EXCEPT
                          !.state.closed_segments[i] = set_persisted(@),
                          !.call = "set_persisted",
                          !.write = SequencedEntry(0, 0, 0),
                          !.out = AppendOk(None),
                          !.since = WriterSequence(0, 0),
                          !.writes = <<>>]
    /\ BufferUnchanged

\* Buffer::all_writes_since, also for a writer and a clock value no write has
AllWritesSince ==
    /\ BufferUsable
    /\ \E clock_value \in {0} \cup ClockValues :
       \E writer_id \in {0} \cup WriterIds :
          LET since == WriterSequence(clock_value, writer_id) IN
          buffer' = [buffer EXCEPT
                       !.call = "all_writes_since",
                       !.write = SequencedEntry(0, 0, 0),
                       !.out = AppendOk(None),
                       !.since = since,
                       !.writes = all_writes_since(buffer.state, since)]
    /\ BufferUnchanged

NextBuffer == NewBuffer \/ AppendWrite \/ SetPersisted \/ AllWritesSince

SpecBuffer == Init /\ [][NextBuffer]_vars

(***************************************************************************)
(* The Config on its own, used by several callers at once.  Every method   *)
(* holds the write lock of the state for its whole body, so a body is one  *)
(* step; a create_db call is entered in one step and runs in a later one,  *)
(* which lets calls of different callers overlap.                          *)
(***************************************************************************)
DatabaseNames == {"foo", "bar"}

Callers == 1..MaxCallers

ConfigUsable == config.created /\ ~config.state.panicked

ConfigUnchanged ==
    UNCHANGED <<columns, snapshot, objects, op, result, batch, rows, clean,
                written, ret, handles, wtbLens, read, dict, pruning, buffer,
                shared>>

\* Config::new
NewConfig ==
    /\ ~config.created
    /\ config' = [NoConfig EXCEPT !.created = TRUE,
                                  !.callers = [t \in Callers |-> NoCaller]]
    /\ ConfigUnchanged

\* another caller is inside a create_db call for that name
Overlaps(t, name) ==
    \E u \in Callers \ {t} :
       config.callers[u].pc = "create_db" /\ config.callers[u].name = name

\* a caller without a handle enters create_db
CallCreateDb ==
    /\ ConfigUsable
    /\ \E t \in Callers : \E name \in DatabaseNames :
          /\ config.callers[t].pc = "idle"
          /\ config.callers[t].handle = ""
          /\ config' = [config EXCEPT
                !.callers = [u \in Callers |->
                    IF u = t
                    THEN [NoCaller EXCEPT !.pc = "create_db",
                                          !.name = name,
                                          !.raced = Overlaps(t, name)]
                    ELSE IF @[u].pc = "create_db" /\ @[u].name = name
                    THEN [@[u] EXCEPT !.raced = TRUE]
                    ELSE @[u]]]
    /\ ConfigUnchanged

\* the body of Config::create_db
CreateDb ==
    /\ ConfigUsable
    /\ \E t \in Callers :
          /\ config.callers[t].pc = "create_db"
          /\ LET r == create_db(config.state, config.callers[t].name) IN
             config' = [config EXCEPT
                !.state = r.state,
                !.callers[t].pc = "idle",
                !.callers[t].out = r.out,
                !.callers[t].handle =
                    IF r.out = "Ok" THEN config.callers[t].name ELSE ""]
    /\ ConfigUnchanged

\* CreateDatabaseHandle::commit
CommitHandle ==
    /\ ConfigUsable
    /\ \E t \in Callers :
          /\ config.callers[t].pc = "idle"
          /\ config.callers[t].handle # ""
          /\ config' = [config EXCEPT
                !.state = commit(@, config.callers[t].handle),
                !.callers[t].handle = "",
                !.callers[t].out = "committed"]
    /\ ConfigUnchanged

\* a CreateDatabaseHandle is dropped without commit
DropHandle ==
    /\ ConfigUsable
    /\ \E t \in Callers :
          /\ config.callers[t].pc = "idle"
          /\ config.callers[t].handle # ""
          /\ config' = [config EXCEPT
                !.state = rollback(@, config.callers[t].handle),
                !.callers[t].handle = "",
                !.callers[t].out = "dropped"]
    /\ ConfigUnchanged

\* Config::drain: shutdown.cancel()
DrainCancel ==
    /\ ConfigUsable
    /\ ~config.state.shutdown
    /\ config' = [config EXCEPT !.state.shutdown = TRUE, !.draining = TRUE]
    /\ ConfigUnchanged

\* Config::drain: the JoinHandles are taken under the write lock
DrainJoin ==
    /\ ConfigUsable
    /\ config.draining
    /\ config' = [config EXCEPT !.state = drain_join(@),
                                !.draining = FALSE]
    /\ ConfigUnchanged

NextConfig ==
    \/ NewConfig
    \/ CallCreateDb
    \/ CreateDb
    \/ CommitHandle
    \/ DropHandle
    \/ DrainCancel
    \/ DrainJoin

SpecConfig == Init /\ [][NextConfig]_vars

(***************************************************************************)
(* The chunk shared by threads.  A thread enters write_table_batch or      *)
(* snapshot() when the borrow rules let it, and runs the method one        *)
(* statement at a time.                                                    *)
(***************************************************************************)
Threads == 1..MaxThreads

SharedUsable == ~shared.panicked

SharedUnchanged ==
    UNCHANGED <<columns, snapshot, objects, op, result, batch, rows, clean,
                written, ret, handles, wtbLens, read, dict, pruning, buffer,
                config>>

At(t, pc) == SharedUsable /\ shared.threads[t].pc = pc

\* a thread calls snapshot()
EnterSnapshot ==
    /\ \E t \in Threads :
          /\ At(t, "idle")
          /\ CanRead(shared)
          /\ shared' = [shared EXCEPT
                !.readers = @ \cup {t},
                !.threads = [u \in Threads |->
                    IF u = t
                    THEN [@[u] EXCEPT !.pc = "lock", !.local = 0,
                                      !.overlap = shared.readers # {}]
                    ELSE IF u \in shared.readers
                    THEN [@[u] EXCEPT !.overlap = TRUE]
                    ELSE @[u]]]
    /\ SharedUnchanged

\* let mut guard = self.snapshot.lock()
SnapshotLock ==
    /\ \E t \in Threads :
          /\ At(t, "lock")
          /\ MutexFree(shared)
          /\ shared' = [shared EXCEPT !.mutex = t,
                                      !.threads[t].pc = "check"]
    /\ SharedUnchanged

\* if let Some(snapshot) = &*guard { return Arc::clone(snapshot) }
SnapshotCheck ==
    /\ \E t \in Threads :
          /\ At(t, "check")
          /\ shared' =
               IF shared.slot # 0
               THEN [shared EXCEPT !.threads[t].local = shared.slot,
                                   !.threads[t].pc = "return"]
               ELSE [shared EXCEPT !.threads[t].pc = "build"]
    /\ SharedUnchanged

\* let snapshot = Arc::new(ChunkSnapshot::new(..))
SnapshotBuild ==
    /\ \E t \in Threads :
          /\ At(t, "build")
          /\ shared' = [shared EXCEPT !.built = @ + 1,
                                      !.since = @ + 1,
                                      !.threads[t].local = shared.built + 1,
                                      !.threads[t].pc = "store"]
    /\ SharedUnchanged

\* *guard = Some(Arc::clone(&snapshot))
SnapshotStore ==
    /\ \E t \in Threads :
          /\ At(t, "store")
          /\ shared' = [shared EXCEPT !.slot = shared.threads[t].local,
                                      !.threads[t].pc = "return"]
    /\ SharedUnchanged

\* snapshot() returns: the guard is dropped, the caller has the Arc
SnapshotReturn ==
    /\ \E t \in Threads :
          /\ At(t, "return")
          /\ shared' = [shared EXCEPT
                !.mutex = IF @ = t THEN 0 ELSE @,
                !.readers = @ \ {t},
                !.threads[t].got = shared.threads[t].local,
                !.threads[t].pc = "idle"]
    /\ SharedUnchanged

\* a thread calls write_table_batch
EnterWrite ==
    /\ \E t \in Threads :
          /\ At(t, "idle")
          /\ CanWrite(shared)
          /\ shared.writes < MaxSnapshots
          /\ shared' = [shared EXCEPT
                !.writer = t,
                !.writes = @ + 1,
                !.since = 0,
                !.threads = [u \in Threads |->
                               [@[u] EXCEPT !.got = 0, !.overlap = FALSE]],
                !.threads[t].pc = "write_columns"]
    /\ SharedUnchanged

\* self.write_columns(sequence, columns)?: Ok, or an error that returns
ColumnsWritten ==
    /\ \E t \in Threads : \E ok \in BOOLEAN :
          /\ At(t, "write_columns")
          /\ shared' =
               IF ok
               THEN [shared EXCEPT !.threads[t].pc = "try_lock"]
               ELSE [shared EXCEPT !.writer = 0,
                                   !.fresh = shared.slot = 0,
                                   !.threads[t].pc = "idle"]
    /\ SharedUnchanged

\* *self.snapshot.try_lock().expect("concurrent readers/writers to
\* MBChunk") = None
InvalidateTryLock ==
    /\ \E t \in Threads :
          /\ At(t, "try_lock")
          /\ shared' =
               IF MutexFree(shared)
               THEN [shared EXCEPT !.slot = 0,
                                   !.threads[t].pc = "written"]
               ELSE [shared EXCEPT !.panicked = TRUE]
    /\ SharedUnchanged

\* write_table_batch returns Ok
WriteReturn ==
    /\ \E t \in Threads :
          /\ At(t, "written")
          /\ shared' = [shared EXCEPT !.writer = 0,
                                      !.fresh = shared.slot = 0,
                                      !.threads[t].pc = "idle"]
    /\ SharedUnchanged

NextShared ==
    \/ EnterSnapshot
    \/ SnapshotLock
    \/ SnapshotCheck
    \/ SnapshotBuild
    \/ SnapshotStore
    \/ SnapshotReturn
    \/ EnterWrite
    \/ ColumnsWritten
    \/ InvalidateTryLock
    \/ WriteReturn

SpecShared == Init /\ [][NextShared]_vars

(***************************************************************************)
(* Properties.                                                             *)
(***************************************************************************)
Writes == {"write_table_batch", "write_columns"}

Returned(name) == op = name /\ result.kind = "Ok"

\* C1: after any sequence of successful write_table_batch calls every
\* column of the chunk has the same length.
C1_EqualColumnLengths ==
    clean => \A n, m \in DOMAIN columns :
                 ColumnLen(columns[n]) = ColumnLen(columns[m])

\* a batch that omits column b was written to a chunk holding a and b
C1_Witness ==
    /\ clean
    /\ op = "write_table_batch"
    /\ DOMAIN columns = {"a", "b"}
    /\ BatchNames(batch) = {"a"}
    /\ rows = 1
    /\ ColumnLen(columns["b"]) = 2

\* C2: a write that returns an error leaves the columns of the chunk (their
\* set, types, lengths, values, validity bits, statistics) as they were.
C2_NoPartialMutation ==
    [][(op' \in Writes /\ IsErr(result')) => columns' = columns]_vars

\* C3: a snapshot() call that follows a snapshot() call with no
\* write_table_batch call in between returns the same handle.
C3_SameHandle ==
    [][(op' = "snapshot" /\ result'.kind = "Ok" /\ ret.quiet)
         => ret'.handle = ret.handle]_vars

\* snapshot() has returned a handle it had returned before
C3_Witness == Returned("snapshot") /\ ret.prior = "live"

\* C4, as stated: a snapshot() call never returns a handle that was
\* returned before a write_table_batch call made since, whatever that call
\* returned.
C4_DifferentAfterAnyWrite ==
    Returned("snapshot") => ret.prior \in {"new", "live"}

\* C4: a snapshot() call never returns a handle that was returned before a
\* write_table_batch call that has since returned Ok.
C4_DifferentAfterOkWrite ==
    Returned("snapshot") => ret.prior # "ok write since"

\* a second handle is returned after a successful write
C4_Witness ==
    /\ Returned("snapshot")
    /\ ret.handle = 2
    /\ handles[1] = "ok write since"

\* the snapshot holds, for every column, at least the rows the chunk had
\* when the last successful write_table_batch returned
SnapshotCovers(s, lens) ==
    \A n \in DOMAIN lens :
        n \in DOMAIN s.batch /\ Len(s.batch[n]) >= lens[n]

\* the rows of the snapshot are the first rows of the chunk
SnapshotIsPrefix(s, cols) ==
    \A n \in DOMAIN s.batch :
        /\ n \in DOMAIN cols
        /\ s.batch[n] = SubSeq(ColumnToArrow(cols[n]), 1, Len(s.batch[n]))

\* C5, as stated: the snapshot a snapshot() call returns was built after
\* every write_table_batch call that has completed, and holds the rows of
\* the batches written.
C5_SeesEveryCompletedWrite ==
    Returned("snapshot") =>
        /\ ret.prior \in {"new", "live"}
        /\ SnapshotCovers(objects[ret.handle], wtbLens)
        /\ SnapshotIsPrefix(objects[ret.handle], columns)

\* C5: the snapshot a snapshot() call returns was built after every
\* write_table_batch call that has returned Ok, and holds all rows the
\* chunk had when the last of them returned.
C5_SeesEveryOkWrite ==
    Returned("snapshot") =>
        /\ ret.prior # "ok write since"
        /\ SnapshotCovers(objects[ret.handle], wtbLens)
        /\ SnapshotIsPrefix(objects[ret.handle], columns)

\* the second snapshot, taken after the second batch, holds two rows
C5_Witness ==
    /\ Returned("snapshot")
    /\ ret.prior = "new"
    /\ Len(objects) = 2
    /\ \E n \in DOMAIN wtbLens :
          wtbLens[n] = 2 /\ Len(objects[ret.handle].batch[n]) = 2

\* no step changes a snapshot object that exists
SnapshotsFrozen ==
    \A h \in 1..Len(objects) : h <= Len(objects') /\ objects'[h] = objects[h]

\* C6, as stated: no step changes the contents of a snapshot that was
\* returned, and the snapshot() call after a write_table_batch call returns
\* a new object.
C6_FrozenAndNewAfterAnyWrite ==
    [][/\ SnapshotsFrozen
       /\ (op' = "snapshot" /\ result'.kind = "Ok")
            => ret'.prior \in {"new", "live"}]_vars

\* C6: no step changes the contents of a snapshot that was returned, and
\* the snapshot() call after a write_table_batch call that returned Ok
\* returns a new object.
C6_FrozenAndNewAfterOkWrite ==
    [][/\ SnapshotsFrozen
       /\ (op' = "snapshot" /\ result'.kind = "Ok")
            => ret'.prior # "ok write since"]_vars

\* an old snapshot is still held while the chunk and the new snapshot
\* have moved on
C6_Witness ==
    /\ Returned("snapshot")
    /\ Len(objects) = 2
    /\ ret.handle = 2
    /\ objects[1] # objects[2]
    /\ objects[1].batch # ChunkToArrow(columns)

\* the batch column names an existing column of another logical type
Mismatched(cols, c) ==
    c.name \in DOMAIN cols /\ cols[c.name].influx_type # c.influx_type

\* C7: a write whose batch holds a column of a logical type other than
\* that of the existing column of its name returns an error and changes
\* no column; the error is ColumnError naming the first such column, with
\* TypeMismatch naming the existing and the inserted type, unless a row
\* count error of that or an earlier batch column comes first; no step
\* changes the logical type of a column.
C7_TypeMismatch ==
    [][/\ \A n \in DOMAIN columns :
            n \in DOMAIN columns'
            /\ columns'[n].influx_type = columns[n].influx_type
       /\ (op' \in Writes
           /\ \E i \in 1..Len(batch') : Mismatched(columns, batch'[i]))
            => LET i == CHOOSE i \in 1..Len(batch') :
                           /\ Mismatched(columns, batch'[i])
                           /\ \A j \in 1..(i - 1) :
                                 ~Mismatched(columns, batch'[j])
                   c == batch'[i]
               IN  /\ IsErr(result')
                   /\ columns' = columns
                   /\ (\A j \in 1..i :
                          batch'[j].row_count = batch'[1].row_count)
                        => result' = ColumnError(c.name,
                                         TypeMismatch(
                                             columns[c.name].influx_type,
                                             c.influx_type))]_vars

\* an integer column was written to a column of unsigned integers
C7_Witness ==
    /\ op = "write_table_batch"
    /\ result.kind = "ColumnError"
    /\ result.source = "TypeMismatch"
    /\ result.existing = "Field(UInteger)"
    /\ result.inserted = "Field(Integer)"

\* C8: after any sequence of successful write_table_batch calls the export
\* of the chunk holds, for every column and row, the cell the batch of
\* that row supplied: its value, or null where the batch had no such
\* column or no value at that position.
C8_ExportIsWritten == clean => ChunkToArrow(columns) = written

\* the rows of a column as the column holds them: null where the validity
\* bit is unset, the stored value (for a tag, the string of its id) elsewhere
ColumnCells(c) ==
    [i \in 1..Len(c.valid) |->
        IF ~c.valid[i] THEN None
        ELSE IF StorageKind(c.influx_type) = "Tag"
             THEN IF c.data[i] = INVALID_DID THEN Some("\\invalid")
                  ELSE Some(c.dictionary[c.data[i] + 1])
             ELSE Some(c.data[i])]

\* C9: a column that a successful write introduces to a chunk of n rows
\* has n null rows (validity bit unset) followed by one row per batch row:
\* null where the batch marked the position null, the batch's value where
\* it supplied one.
C9_NewColumnBackfilled ==
    [][(op' \in Writes /\ result' = Ok)
         => \A n \in BatchNames(batch') \ DOMAIN columns :
               LET c == columns'[n]
                   fc == FirstNamed(batch', n)
                   cells == EntryColumnCells(fc)
                   out == ColumnCells(c)
               IN  /\ ColumnLen(c) = rows' + fc.row_count
                   /\ Len(out) = ColumnLen(c)
                   /\ \A i \in 1..rows' : out[i] = None
                   /\ \A i \in 1..fc.row_count :
                         /\ is_null_value(i, fc.null_mask)
                              => out[rows' + i] = None
                         /\ cells[i] # None
                              => out[rows' + i] = cells[i]]_vars

\* column a arrived when the chunk had one row
C9_Witness ==
    /\ op \in Writes
    /\ result = Ok
    /\ rows = 1
    /\ "a" \in BatchNames(batch)
    /\ "a" \in DOMAIN columns
    /\ ColumnCells(columns["a"]) = <<None, Some("a")>>

\* C10: a successful write_table_batch leaves the rows every column had
\* as they were, and of a column the batch does not name it changes only
\* the length, by one null row per batch row.
C10_AppendOnly ==
    [][(op' = "write_table_batch" /\ result' = Ok)
         => \A n \in DOMAIN columns :
               LET old == columns[n]
                   new == columns'[n]
                   additional_rows == IF batch' = <<>> THEN 0
                                      ELSE batch'[1].row_count
               IN  /\ SubSeq(new.valid, 1, Len(old.valid)) = old.valid
                   /\ SubSeq(new.data, 1, Len(old.data)) = old.data
                   /\ n \notin BatchNames(batch')
                        => new = [old EXCEPT
                                    !.valid = append_unset(old.valid,
                                                           additional_rows),
                                    !.data = old.data \o Repeat(
                                        DefaultValue(
                                            StorageKind(old.influx_type)),
                                        additional_rows)]]_vars

\* the rows of a batch column that carry a value
NonNullRows(c) ==
    LET cells == EntryColumnCells(c)
    IN  {i \in 1..Len(cells) : cells[i] # None}

\* the values a batch column supplies for its rows
SuppliedValues(c) ==
    LET cells == EntryColumnCells(c)
    IN  {cells[i] : i \in NonNullRows(c)}

\* the statistics of a column before the write (of a new column: none)
StatsBefore(n) ==
    IF n \in DOMAIN columns THEN columns[n].stats ELSE StatValuesDefault

C12_LengthsAgree ==
    Usable => \A n \in DOMAIN columns :
                 /\ Len(columns[n].data) = Len(columns[n].valid)
                 /\ ColumnLen(columns[n]) = Len(columns[n].valid)

\* a boolean column of two rows has just rejected a batch column
C12_Witness ==
    /\ op = "append"
    /\ IsErr(result)
    /\ "c" \in DOMAIN columns
    /\ StorageKind(columns["c"].influx_type) = "Bool"
    /\ ColumnLen(columns["c"]) = 2
    /\ columns["c"].stats.count = 1

\* the batch column reports another row count than the first column
OffCount(cs, i) == cs[i].row_count # cs[1].row_count

OffContents(c) ==
    Len(c.values)
    + (IF c.null_mask.some THEN SumCountOnes(c.null_mask.bytes) ELSE 0)
    # c.row_count

\* C14: a write whose batch holds a column whose values and null positions
\* do not add up to its declared row count returns IncorrectRowCount and
\* changes no column.
C14_ContentsChecked ==
    [][(op' \in Writes /\ \E i \in 1..Len(batch') : OffContents(batch'[i]))
         => /\ result'.kind = "IncorrectRowCount"
            /\ columns' = columns]_vars

\* the null mask of the batch column is not ceil(row_count / 8) bytes long
BadMask(c) ==
    c.null_mask.some /\ Len(c.null_mask.bytes) # (c.row_count + 7) \div 8

\* C15: a write that is rejected for the length of a null mask reports the
\* column, the expected and the actual number of bytes, and has changed no
\* column of the chunk.
C15_MaskRejectedFirst ==
    [][(op' \in Writes /\ result'.kind = "ColumnError"
        /\ result'.source = "InvalidNullMask")
         => /\ \E i \in 1..Len(batch') :
                  /\ BadMask(batch'[i])
                  /\ result' = ColumnError(
                                  batch'[i].name,
                                  InvalidNullMask(
                                      (batch'[i].row_count + 7) \div 8,
                                      Len(batch'[i].null_mask.bytes)))
            /\ columns' = columns]_vars

\* C16: write_table_batch never panics, whatever the batch holds.
C16_NoPanic ==
    op = "write_table_batch" => result.kind # "Panic"

\* C17: the cache slot goes from full to empty only in a write_table_batch
\* call that returned Ok, in which every column of the chunk has reached the
\* final row count (every append and the null padding are done); and such a
\* call leaves the slot empty.
C17_ClearedLast ==
    [][/\ (snapshot # None /\ snapshot' = None)
            => /\ op' = "write_table_batch"
               /\ result' = Ok
               /\ \A n \in DOMAIN columns' :
                     ColumnLen(columns'[n])
                       = rows' + (IF batch' = <<>> THEN 0
                                  ELSE batch'[1].row_count)
       /\ (op' = "write_table_batch" /\ result' = Ok) => snapshot' = None]_vars

\* a write_table_batch that padded a column has returned Ok to a chunk whose
\* snapshot had been taken, and the slot is empty
C17_Witness ==
    /\ Returned("write_table_batch")
    /\ snapshot = None
    /\ objects # <<>>
    /\ batch # <<>>
    /\ batch[1].row_count > 0
    /\ DOMAIN columns \ BatchNames(batch) # {}
    /\ \A n \in DOMAIN objects[Len(objects)].batch :
          Len(objects[Len(objects)].batch[n]) = rows

\* the names of a schema, in its order
FieldNames(s) == [i \in 1..Len(s) |-> s[i].name]

\* C18: schema(All) returns every column of the chunk once, with its
\* logical type, sorted by name; schema(Some(names)) returns the named
\* columns in the order given when the chunk holds them all, and the
\* ColumnNotFound error naming an absent column otherwise; the call never
\* panics and changes nothing of the chunk.
C18_Schema ==
    [][op' = "schema"
         => LET sel == read'.selection
                s == read'.schema
            IN  /\ columns' = columns
                /\ snapshot' = snapshot
                /\ result'.kind \in {"Ok", "ColumnNotFound"}
                /\ result' = Ok
                     => \A i \in 1..Len(s) :
                           s[i].influx_type = columns[s[i].name].influx_type
                /\ sel.all
                     => /\ result' = Ok
                        /\ {s[i].name : i \in 1..Len(s)} = DOMAIN columns
                        /\ \A i, j \in 1..Len(s) :
                              i < j => StrRank(s[i].name) < StrRank(s[j].name)
                /\ (~sel.all /\ \A i \in 1..Len(sel.cols) :
                                   sel.cols[i] \in DOMAIN columns)
                     => result' = Ok /\ FieldNames(s) = sel.cols
                /\ (~sel.all /\ \E i \in 1..Len(sel.cols) :
                                   sel.cols[i] \notin DOMAIN columns)
                     => /\ result'.kind = "ColumnNotFound"
                        /\ result'.column \notin DOMAIN columns
                        /\ \E i \in 1..Len(sel.cols) :
                              sel.cols[i] = result'.column]_vars

\* schema(All) has returned three columns
C18_Witness ==
    /\ Returned("schema")
    /\ read.selection.all
    /\ Len(read.schema) = 3

\* schema(Some) has returned two columns in an order that is not by name
C18_WitnessSome ==
    /\ Returned("schema")
    /\ FieldNames(read.schema) = <<"c", "a">>

\* schema(Some) has returned ColumnNotFound
C18_WitnessNotFound ==
    /\ op = "schema"
    /\ result = ColumnNotFound("b")
    /\ read.selection.cols = <<"a", "b", "c">>
    /\ DOMAIN columns = {"a"}

\* C19: the array Column::to_arrow returns has len() entries and is null
\* exactly at the rows whose validity bit is unset.
C19_ExportNulls ==
    (Usable /\ "c" \in DOMAIN columns)
        => LET c == columns["c"]
               array == ColumnToArrow(c)
           IN  /\ Len(array) = ColumnLen(c)
               /\ \A i \in 1..Len(array) : (array[i] = None) <=> ~c.valid[i]

\* C20: the symbol lookup_value_or_insert returns for a string resolves to
\* that string through lookup_id, is the symbol the string got when it was
\* first inserted, and the dictionary holds one entry for each distinct
\* string inserted.
C20_RoundTrip ==
    dict.id # INVALID_DID
        => /\ lookup_id(dict.storage, dict.id) = Some(dict.value)
           /\ dict.id = dict.symbols[dict.value]
           /\ Len(dict.storage) = Cardinality(DOMAIN dict.symbols)
           /\ \A s \in DOMAIN dict.symbols :
                 lookup_id(dict.storage, dict.symbols[s]) = Some(s)

\* "a" was inserted first, two other strings after it, and "a" again
C20_Witness ==
    /\ dict.value = "a"
    /\ dict.id = 0
    /\ Len(dict.storage) = 3

\* C21: after every dictionary call that returned, distinct strings have
\* distinct symbols, the symbols issued are 0, 1, 2, ... without a gap, every
\* symbol issued before the call still resolves to its string, the strings
\* stored before are stored at the same index, and a string inserted for the
\* first time gets the index it was appended at, the next symbol.
C21_BijectionGrows ==
    [][~dict'.panicked
         => /\ \A s, t \in DOMAIN dict'.symbols :
                  dict'.symbols[s] = dict'.symbols[t] => s = t
            /\ {dict'.symbols[s] : s \in DOMAIN dict'.symbols}
                 = 0..(Len(dict'.storage) - 1)
            /\ \A s \in DOMAIN dict.symbols :
                  lookup_id(dict'.storage, dict.symbols[s]) = Some(s)
            /\ SubSeq(dict'.storage, 1, Len(dict.storage)) = dict.storage
            /\ (dict'.call = "lookup_value_or_insert"
                  /\ dict'.value \notin DOMAIN dict.symbols)
                 => /\ dict'.id = Cardinality(DOMAIN dict.symbols)
                    /\ dict'.storage = Append(dict.storage, dict'.value)]_vars

\* a fourth string was inserted and got symbol 3
C21_Witness ==
    /\ dict.call = "lookup_value_or_insert"
    /\ Len(dict.storage) = 4
    /\ dict.id = 3
    /\ dict.symbols[dict.value] = 3

\* C22: lookup_id, id and lookup_value change nothing of the dictionary and
\* do not panic; lookup_id returns None for a symbol that was never issued
\* (negative and out-of-range ones among them) and the string for an issued
\* one; id and lookup_value return the symbol of a string that was inserted
\* and None for any other string.
C22_Lookups ==
    [][dict'.call \in {"lookup_id", "id", "lookup_value"}
         => /\ dict'.storage = dict.storage
            /\ dict'.symbols = dict.symbols
            /\ ~dict'.panicked
            /\ dict'.call = "lookup_id"
                 => IF \E s \in DOMAIN dict.symbols : dict.symbols[s] = dict'.arg
                    THEN \E s \in DOMAIN dict.symbols :
                            /\ dict.symbols[s] = dict'.arg
                            /\ dict'.out = Some(s)
                    ELSE dict'.out = None
            /\ dict'.call \in {"id", "lookup_value"}
                 => IF dict'.value \in DOMAIN dict.symbols
                    THEN dict'.out = Some(dict.symbols[dict'.value])
                    ELSE dict'.out = None]_vars

\* lookup_id(-1) has returned None from a dictionary of two strings
C22_Witness ==
    /\ dict.call = "lookup_id"
    /\ dict.arg = 0 - 1
    /\ dict.out = None
    /\ Len(dict.storage) = 2

\* id has returned None for a string that was not inserted
C22_WitnessId ==
    /\ dict.call = "id"
    /\ dict.out = None
    /\ Len(dict.storage) = 2

\* C23: lookup_value_or_insert panics exactly when the string is new and the
\* index it is appended at does not fit K; a call that returns hands out a
\* symbol of K that is the index of the string, never a wrapped one; no
\* other dictionary call panics.
C23_ExhaustionPanics ==
    [][/\ dict'.call = "lookup_value_or_insert"
            => /\ dict'.panicked
                    <=> (dict'.value \notin DOMAIN dict.symbols
                           /\ Len(dict.storage) > KMax)
               /\ ~dict'.panicked
                    => /\ dict'.id \in 0..KMax
                       /\ dict'.storage[dict'.id + 1] = dict'.value
       /\ dict'.call # "lookup_value_or_insert" => ~dict'.panicked]_vars

\* the insertion of one string more than K can number has panicked
C23_Witness ==
    /\ dict.panicked
    /\ dict.call = "lookup_value_or_insert"
    /\ Cardinality(DOMAIN dict.symbols) = KMax + 1

\* C24: for a predicate without filter expression prune_chunks returns the
\* chunks it was given, in their order, and the observer is told
\* could_not_prune once, with a reason, and nothing else.
C24_NoFilter ==
    (pruning.called /\ pruning.predicate = <<>>)
        => /\ pruning.out = pruning.summaries
           /\ Len(pruning.events) = 1
           /\ pruning.events[1].call = "could_not_prune"
           /\ pruning.events[1].reason # ""

\* prune_chunks was given two chunks and a predicate without expression
C24_Witness ==
    /\ pruning.called
    /\ pruning.predicate = <<>>
    /\ Len(pruning.summaries) = 2
    /\ Len(pruning.out) = 2

\* the summary of the chunk has no statistics for a column the predicate
\* reads, or statistics of a type that cannot be compared with the literal
CannotEvaluate(chunk, predicate) ==
    \E i \in 1..Len(predicate) :
        \/ ~chunk[predicate[i].column].has_stats
        \/ ~Comparable(chunk[predicate[i].column].type, predicate[i].lit_type)

\* C25: a chunk without statistics for a column of the predicate, or with
\* statistics that cannot be compared with the literal, is in the output,
\* the observer was told could_not_prune_chunk for it and was not told
\* was_pruned for it.
C25_KeptAndNotified ==
    (pruning.called /\ pruning.predicate # <<>>)
        => \A i \in 1..Len(pruning.summaries) :
              CannotEvaluate(pruning.summaries[i], pruning.predicate)
                => /\ \E j \in 1..Len(pruning.out) :
                         pruning.out[j] = pruning.summaries[i]
                   /\ \E j \in 1..Len(pruning.events) :
                         /\ pruning.events[j].call = "could_not_prune_chunk"
                         /\ pruning.events[j].chunk = pruning.summaries[i].name
                   /\ \A j \in 1..Len(pruning.events) :
                         pruning.events[j].chunk = pruning.summaries[i].name
                            => pruning.events[j].call # "was_pruned"

\* the values a row may hold in a column
RowValues == {None} \cup {Some(v) : v \in 0..3}

\* a row may hold x in the column: null anywhere, nothing but null in a
\* column the chunk does not have, a value within the bounds the summary
\* gives
MayHold(profile, x) ==
    \/ x = None
    \/ /\ profile.in_schema
       /\ (profile.has_stats /\ profile.min # None) => profile.min[1] <= x[1]
       /\ (profile.has_stats /\ profile.max # None) => x[1] <= profile.max[1]

\* the row satisfies every comparison of the predicate
RowSatisfies(chunk, predicate, row) ==
    \A i \in 1..Len(predicate) :
        LET e == predicate[i]
            x == row[e.column]
        IN  /\ x # None
            /\ Comparable(chunk[e.column].type, e.lit_type)
            /\ CASE e.op = "gt" -> x[1] > e.lit
                 [] e.op = "lt" -> x[1] < e.lit
                 [] e.op = "eq" -> x[1] = e.lit

\* the chunk may hold a row that satisfies the predicate
MayMatch(chunk, predicate) ==
    \E x1, x2 \in RowValues :
        /\ MayHold(chunk.column1, x1)
        /\ MayHold(chunk.column2, x2)
        /\ RowSatisfies(chunk, predicate, [column1 |-> x1, column2 |-> x2])

\* the chunks of the last call that are not in its output
Pruned == {i \in 1..Len(pruning.summaries) :
              \A j \in 1..Len(pruning.out) :
                  pruning.out[j].name # pruning.summaries[i].name}

\* C26: prune_chunks leaves out no chunk that may hold a row satisfying
\* the predicate.
C26_Sound ==
    pruning.called
        => \A i \in Pruned : ~MayMatch(pruning.summaries[i], pruning.predicate)

\* of two chunks whose first column is below the literal of column1 > 1 AND
\* column2 < 1 one was pruned while it lacks statistics of column2, the
\* other kept
C26_Witness ==
    /\ pruning.called
    /\ Len(pruning.predicate) = 2
    /\ Len(pruning.summaries) = 2
    /\ Pruned = {1}
    /\ ~pruning.summaries[1].column2.has_stats
    /\ MayMatch(pruning.summaries[2], pruning.predicate)

\* the observer was told was_pruned for the chunk
ToldPruned(chunk) ==
    \E j \in 1..Len(pruning.events) :
        /\ pruning.events[j].call = "was_pruned"
        /\ pruning.events[j].chunk = chunk.name

\* C27: the output of prune_chunks is its input without the chunks that
\* were pruned: the other chunks, each once, in the order of the input.
C27_Subsequence ==
    pruning.called
        => pruning.out = SelectSeq(pruning.summaries,
                                   LAMBDA chunk : ~ToldPruned(chunk))

\* the first of two chunks was pruned, the second is the output
C27_Witness ==
    /\ pruning.called
    /\ Len(pruning.summaries) = 2
    /\ ToldPruned(pruning.summaries[1])
    /\ pruning.out = <<pruning.summaries[2]>>

\* two chunks were kept by a predicate with an expression
C27_WitnessOrder ==
    /\ pruning.called
    /\ pruning.predicate # <<>>
    /\ Len(pruning.out) = 2

\* what the observer was told about the chunk, in order
EventsOf(events, chunk) ==
    SelectSeq(events, LAMBDA e : e.chunk = chunk.name)

\* C28: whether a chunk of the list is kept, and what the observer is told
\* about it, is what prune_chunks decides for the chunk on its own under
\* the same predicate, whatever the other chunks of the list are.
C28_Independent ==
    (pruning.called /\ pruning.predicate # <<>>)
        => \A i \in 1..Len(pruning.summaries) :
              LET alone == prune_chunks(<<pruning.summaries[i]>>,
                                        pruning.predicate)
              IN  /\ (i \in Pruned) <=> (alone.out = <<>>)
                  /\ EventsOf(pruning.events, pruning.summaries[i])
                       = alone.events

\* a chunk with a string column1 was kept for its type, the Int64 chunk
\* after it was pruned
C28_Witness ==
    /\ pruning.called
    /\ Len(pruning.summaries) = 2
    /\ pruning.summaries[1].column1.type = "Utf8"
    /\ pruning.summaries[2].column1.type = "Int64"
    /\ Pruned = {2}
    /\ Len(pruning.events) = 2
    /\ pruning.events[1].call = "could_not_prune_chunk"

\* the values of a batch column that are not NaN, each as an Option
OrdinaryValues(values) ==
    {Some(values[i]) : i \in {j \in 1..Len(values) : ~values[j].nan}}

\* C29: an append to a float column that returns Ok for a batch column with
\* rows raises the statistics count by the number of values supplied, NaN
\* included; the new min and max are never NaN: they are the old ones or
\* one of the supplied values that are not NaN, and bound all of these, in
\* whatever order the values arrived.
C29_NanStats ==
    [][(/\ op' = "append"
        /\ result' = Ok
        /\ StorageKind(columns'["c"].influx_type) = "F64"
        /\ batch'[1].row_count > 0)
         => LET old == columns["c"].stats
                new == columns'["c"].stats
                ord == OrdinaryValues(batch'[1].values)
                seen == ord \cup ({old.min, old.max} \ {None})
            IN  /\ new.count = old.count + Len(batch'[1].values)
                /\ new.min # Some(NaN)
                /\ new.max # Some(NaN)
                /\ (seen = {}) <=> (new.min = None)
                /\ (seen = {}) <=> (new.max = None)
                /\ seen # {}
                     => /\ new.min \in seen
                        /\ new.max \in seen
                        /\ \A v \in seen :
                              /\ ~Greater("F64", new.min[1], v[1])
                              /\ ~Greater("F64", v[1], new.max[1])]_vars

\* NaN then an ordinary value were appended in one batch column
C29_Witness ==
    /\ op = "append"
    /\ result = Ok
    /\ "c" \in DOMAIN columns
    /\ StorageKind(columns["c"].influx_type) = "F64"
    /\ columns["c"].data = <<NaN, F64(1)>>
    /\ columns["c"].valid = <<TRUE, TRUE>>
    /\ columns["c"].stats
         = [count |-> 2, min |-> Some(F64(1)), max |-> Some(F64(1))]

\* the ordinary value arrived first
C29_WitnessAfter ==
    /\ op = "append"
    /\ result = Ok
    /\ "c" \in DOMAIN columns
    /\ StorageKind(columns["c"].influx_type) = "F64"
    /\ columns["c"].data = <<F64(1), NaN>>
    /\ columns["c"].stats
         = [count |-> 2, min |-> Some(F64(1)), max |-> Some(F64(1))]

\* an append that finds the buffer too full for the write
FullAppend ==
    /\ buffer'.call = "append"
    /\ buffer.state.current_size + buffer'.write.size > buffer.state.max_size

\* the buffer holds a closed segment of that id
HoldsSegment(b, id) ==
    \E j \in 1..Len(b.closed_segments) : b.closed_segments[j].id = id

\* the write is an entry of the open or of the newest closed segment
HoldsWrite(b, write) ==
    \/ \E k \in 1..Len(b.open_segment.sequenced_entries) :
          b.open_segment.sequenced_entries[k] = write
    \/ /\ b.closed_segments # <<>>
       /\ LET last == b.closed_segments[Len(b.closed_segments)] IN
          \E k \in 1..Len(last.sequenced_entries) :
             last.sequenced_entries[k] = write

\* the oldest closed segment is persisted; no closed segment counts as not
\* persisted
OldestPersisted(b) ==
    b.closed_segments # <<>> /\ b.closed_segments[1].persisted

\* a persisted oldest segment is dropped first
DropsPersisted ==
    (FullAppend /\ OldestPersisted(buffer.state))
        => ~HoldsSegment(buffer'.state, buffer.state.closed_segments[1].id)

\* DropIncoming returns Ok(None) and leaves the buffer as it was
DropIncomingKeeps ==
    (/\ FullAppend
     /\ ~OldestPersisted(buffer.state)
     /\ buffer.state.rollover_behavior = "DropIncoming")
        => /\ buffer'.out = AppendOk(None)
           /\ buffer'.state = buffer.state

\* ReturnError returns an error and leaves the closed segments as they were
ReturnErrorKeeps ==
    (/\ FullAppend
     /\ ~OldestPersisted(buffer.state)
     /\ buffer.state.rollover_behavior = "ReturnError")
        => /\ buffer'.out.kind = "UnableToDropSegment"
           /\ buffer'.state.closed_segments = buffer.state.closed_segments

\* DropOldSegment drops the oldest closed segment, when there is one that
\* is not persisted, and accepts the write
DropOldSegmentAccepts ==
    (/\ FullAppend
     /\ buffer.state.closed_segments # <<>>
     /\ ~OldestPersisted(buffer.state)
     /\ buffer.state.rollover_behavior = "DropOldSegment")
        => /\ ~HoldsSegment(buffer'.state,
                            buffer.state.closed_segments[1].id)
           /\ buffer'.out.kind = "Ok"
           /\ HoldsWrite(buffer'.state, buffer'.write)

\* C30: when a write does not fit under max_size, append first drops the
\* oldest closed segment if it is persisted; if it is not persisted,
\* DropIncoming returns Ok(None) and leaves the segments unchanged,
\* DropOldSegment drops the oldest closed segment and accepts the write,
\* ReturnError returns an error and leaves the closed segments unchanged.
C30_FullBufferPolicy ==
    [][/\ DropsPersisted
       /\ DropIncomingKeeps
       /\ ReturnErrorKeeps
       /\ DropOldSegmentAccepts]_vars

\* the three parts of the policy that do not accept the write
FullBufferPolicyKeeps ==
    [][DropsPersisted /\ DropIncomingKeeps /\ ReturnErrorKeeps]_vars

\* DropOldSegment dropped a closed segment that was not persisted and
\* accepted the write
DropOldSegmentAccepted ==
    /\ buffer.call = "append"
    /\ buffer.state.rollover_behavior = "DropOldSegment"
    /\ buffer.out.kind = "Ok"
    /\ buffer.state.closed_segments # <<>>
    /\ buffer.state.closed_segments[1].id > 1
    /\ \A j \in 1..Len(buffer.state.closed_segments) :
          ~buffer.state.closed_segments[j].persisted

\* every write the buffer holds, from the oldest segment to the open one
HeldWrites(b) ==
    SegmentEntries(b.closed_segments, Len(b.closed_segments))
    \o b.open_segment.sequenced_entries

\* the positions of the held writes that since identifies
Matches(b, since) ==
    {i \in 1..Len(HeldWrites(b)) :
        /\ HeldWrites(b)[i].clock_value = since.clock_value
        /\ HeldWrites(b)[i].writer_id = since.writer_id}

\* C31: all_writes_since returns, from the oldest to the newest, the held
\* writes of all segments and writers that come after the write since
\* identifies, and all held writes when no held write matches since.
C31_AllWritesSince ==
    buffer.call = "all_writes_since"
        => LET held == HeldWrites(buffer.state)
               m == Matches(buffer.state, buffer.since)
           IN  IF m = {} THEN buffer.writes = held
               ELSE \E i \in m :
                       /\ \A j \in m : j <= i
                       /\ buffer.writes = SubSeq(held, i + 1, Len(held))

\* the call returned the writes after a held write that since matches
AllWritesSinceAfterMatch ==
    /\ buffer.call = "all_writes_since"
    /\ Matches(buffer.state, buffer.since) # {}
    /\ buffer.writes # <<>>
    /\ C31_AllWritesSince

\* the name is reserved or committed
Taken(state, name) ==
    name \in state.reservations \/ name \in DOMAIN state.databases

\* the body of create_db has just run for caller t
CreateDbRan(t) ==
    config.callers[t].pc = "create_db" /\ config'.callers[t].pc = "idle"

\* caller t has just dropped its handle without commit
HandleDropped(t) ==
    config.callers[t].handle # "" /\ config'.callers[t].out = "dropped"

\* C32: a database name is never both reserved and committed; create_db
\* returns DatabaseAlreadyExists, and changes nothing, exactly when the name
\* is reserved or committed as its body runs, and a handle otherwise; no two
\* callers hold a handle for one name, so of the create_db calls for one
\* name that overlap at most one returns a handle; after a handle is dropped
\* without commit the name is neither reserved nor committed and create_db
\* for it succeeds.
C32_Reservation ==
    [][config.created
         => /\ config'.state.reservations
                 \cap DOMAIN config'.state.databases = {}
            /\ \A t \in Callers :
                  CreateDbRan(t)
                     => LET name == config.callers[t].name IN
                        IF Taken(config.state, name)
                        THEN /\ config'.callers[t].out
                                  = "DatabaseAlreadyExists"
                             /\ config'.callers[t].handle = ""
                             /\ config'.state = config.state
                        ELSE /\ config'.callers[t].out = "Ok"
                             /\ config'.callers[t].handle = name
                             /\ name \in config'.state.reservations
            /\ \A t, u \in Callers :
                  (t # u /\ config'.callers[t].handle # "")
                     => config'.callers[t].handle # config'.callers[u].handle
            /\ \A t \in Callers :
                  config'.callers[t].handle # ""
                     => config'.callers[t].handle
                           \in config'.state.reservations
            /\ \A t \in Callers :
                  HandleDropped(t)
                     => /\ ~Taken(config'.state, config.callers[t].handle)
                        /\ create_db(config'.state,
                                     config.callers[t].handle).out = "Ok"
       ]_vars

\* two create_db calls for one name overlapped: one caller holds the handle,
\* the other was told the database exists
C32_Witness ==
    /\ config.created
    /\ \E t, u \in Callers :
          /\ config.callers[t].raced
          /\ config.callers[u].raced
          /\ config.callers[t].name = config.callers[u].name
          /\ config.callers[t].out = "Ok"
          /\ config.callers[t].handle = config.callers[t].name
          /\ config.callers[u].out = "DatabaseAlreadyExists"
          /\ config.callers[u].pc = "idle"

\* a caller dropped its handle and another caller then got one for the name
C32_WitnessDropped ==
    /\ config.created
    /\ \E t, u \in Callers :
          /\ config.callers[t].out = "dropped"
          /\ config.callers[u].out = "Ok"
          /\ config.callers[u].handle = config.callers[t].name
          /\ config.callers[u].raced

\* the predicate column1 > 1
Column1Gt == <<Comparison("column1", "gt", "Int64", 1)>>

\* the chunk is in the output and the observer was not told it was pruned
KeptQuietly(chunk) ==
    /\ \E j \in 1..Len(pruning.out) : pruning.out[j] = chunk
    /\ ~ToldPruned(chunk)

\* the column1 statistics of the chunk are there with min and max absent
OnlyNulls(chunk) ==
    /\ chunk.column1.in_schema
    /\ chunk.column1.has_stats
    /\ chunk.column1.min = None
    /\ chunk.column1.max = None

\* column1 is in the schema of the chunk, without statistics
NoStatistics(chunk) ==
    chunk.column1.in_schema /\ ~chunk.column1.has_stats

\* the column1 statistics have a max not above the literal and no min
MaxBelow(chunk) ==
    /\ chunk.column1.in_schema
    /\ chunk.column1.has_stats
    /\ chunk.column1.type = "Int64"
    /\ chunk.column1.min = None
    /\ chunk.column1.max # None
    /\ chunk.column1.max[1] <= 1

C33_WitnessAbsent ==
    /\ pruning.called
    /\ pruning.predicate = Column1Gt
    /\ Len(pruning.summaries) = 2
    /\ OnlyNulls(pruning.summaries[1])
    /\ NoStatistics(pruning.summaries[2])
    /\ Pruned = {}
    /\ pruning.events = <<>>

\* C34: with write_table_batch entered only while no other thread is inside
\* write_table_batch or snapshot(), the try_lock of write_table_batch finds
\* the cache mutex free in every interleaving: the panic 'concurrent
\* readers/writers to MBChunk' is not reached.
C34_TryLockSucceeds ==
    /\ ~shared.panicked
    /\ \A t \in Threads :
          shared.threads[t].pc = "try_lock" => MutexFree(shared)

\* a write has emptied a slot that a snapshot() call had filled
C34_Witness ==
    \E t \in Threads :
       /\ shared.threads[t].pc = "written"
       /\ shared.built > 0
       /\ shared.slot = 0
       /\ ~shared.fresh

\* the threads whose snapshot() call has returned since the last write
Returned35 == {t \in Threads : shared.threads[t].got # 0}

\* C35: of the snapshot() calls with no write between them at most one
\* builds a ChunkSnapshot, exactly one when the slot was empty after the
\* last write; every one of them returns the Arc the slot holds.
C35_OneSnapshot ==
    /\ shared.since <= 1
    /\ \A t \in Returned35 : shared.threads[t].got = shared.slot
    /\ (Returned35 # {} /\ shared.fresh) => shared.since = 1

\* two snapshot() calls that overlapped have returned the one Arc that one
\* of them built
C35_Witness ==
    /\ Returned35 = Threads
    /\ \A t \in Threads : shared.threads[t].overlap
    /\ shared.since = 1
    /\ shared.fresh
    /\ shared.slot # 0

\* C36: whenever the cache slot holds a snapshot, the snapshot is what
\* snapshot() would build from the columns as they are now: no
\* write_table_batch, returning Ok or an error, and no write_columns has
\* changed a column and left the slot filled.
C36_NeverStale ==
    (Usable /\ snapshot # None)
        => /\ CanSnapshot(columns)
           /\ objects[snapshot[1]] = ChunkSnapshotNew(columns)

\* the same for the calls of write_table_batch alone
C36_NeverStaleWriteTableBatch ==
    [][(Usable' /\ op' = "write_table_batch" /\ snapshot' # None)
          => /\ CanSnapshot(columns')
             /\ objects'[snapshot'[1]] = ChunkSnapshotNew(columns')]_vars

\* a write_table_batch that returned Ok left no snapshot in the slot
C36_ClearedAfterOk ==
    (op = "write_table_batch" /\ result = Ok) => snapshot = None

\* a batch column whose null mask has the length of its row count and whose
\* values are as many as its rows that are not null
WellFormedColumn(c) ==
    /\ ~BadMask(c)
    /\ Len(c.values) = Cardinality(NonNullRows(c))

\* a batch of columns of one row count and of different names, each well
\* formed and of the type of the chunk's column of its name
WellFormedBatch(cs, cols) ==
    \A i \in 1..Len(cs) :
       /\ WellFormedColumn(cs[i])
       /\ cs[i].row_count = cs[1].row_count
       /\ \A j \in 1..Len(cs) : cs[j].name = cs[i].name => j = i
       /\ cs[i].name \in DOMAIN cols
            => cols[cs[i].name].influx_type = cs[i].influx_type

\* C37: between calls, also after a write_table_batch that returned an
\* error, all columns of the chunk are equally long, so rows() does not
\* depend on the column it reads.
C37_StaysUsable ==
    Usable => \A n, m \in DOMAIN columns :
                 ColumnLen(columns[n]) = ColumnLen(columns[m])

\* a well-formed batch given to write_table_batch has tripped one of the two
\* assertions
C37_AssertionTripped ==
    /\ op = "write_table_batch"
    /\ result \in {Panic("column.len() == final_row_count"),
                   Panic("cannot shrink column")}
    /\ batch # <<>>
    /\ WellFormedBatch(batch, columns)

\* the number of rows a column marks valid
SetBits(c) == Cardinality({i \in 1..Len(c.valid) : c.valid[i]})

\* C38: in every state of a column that has not panicked, the statistics
\* count is the number of set bits of the validity bitmap.
C38_CountIsValidBits ==
    Usable => \A n \in DOMAIN columns :
                 columns[n].stats.count = SetBits(columns[n])

====
